---- MODULE Spec2Model ----
(***************************************************************************)
(* A model of the jq-style streaming query engine of bVald: the JvValue    *)
(* variant and its serialisation, the JSON DOM parser, the filter lexer,   *)
(* the precedence-climbing parser, the bytecode compiler, the executor,    *)
(* the builtin registry and the Engine that ties them together.            *)
(*                                                                         *)
(* Text (filter sources, JSON inputs and outputs, names, keys) is a        *)
(* sequence of one-character strings, so that lexing, parsing and          *)
(* serialising are computed character by character as the code does.      *)
(* A number payload is an integer: the integer-valued doubles.             *)
(***************************************************************************)
EXTENDS Integers, Sequences, FiniteSets, TLC

VARIABLES
  ast_,          \* Engine::ast_ (NullAst when the pointer is null)
  program_,      \* Engine::program_ (NullProgram when the pointer is null)
  registry_,     \* Builtins::registry_ : name -> builtin function
  initialized_,  \* Builtins::initialized_
  call,          \* the last Engine call: operation, arguments, result, trace
  c_json_outputs,  \* the caller's std::vector<std::string> &json_outputs
  c_json_out,    \* the caller's std::string &json_out
  c_err,         \* the caller's std::string &err
  x_prog,        \* Executor: the Program being executed
  x_pc,          \* Executor: the loop index i of exec_range
  x_current,     \* Executor: the register `current`
  x_outputs,     \* Executor: the outputs vector
  x_status,      \* Executor: "idle", "running", "returned_true", "returned_false"
  x_last         \* Executor: the instruction executed by the last step

vars == <<ast_, program_, registry_, initialized_, call, c_json_outputs, c_json_out,
          c_err, x_prog, x_pc, x_current, x_outputs, x_status, x_last>>

engineVars == <<ast_, program_, call, c_json_outputs, c_json_out, c_err>>
execVars == <<x_prog, x_pc, x_current, x_outputs, x_status, x_last>>

-----------------------------------------------------------------------------
(* Characters and text *)

\* K applied to the value v: a result that is named once and used many times.
Bind(v, K(_)) == K(v)

\* The printable ASCII characters in code order, starting at code 32 (code 96
\* is written GRAVE; the characters of code 0 and 8 are written NUL and BS).
AsciiTable ==
  << " ", "!", "\"", "#", "$", "%", "&", "'", "(", ")", "*", "+", ",", "-", ".", "/",
     "0", "1", "2", "3", "4", "5", "6", "7", "8", "9", ":", ";", "<", "=", ">", "?",
     "@", "A", "B", "C", "D", "E", "F", "G", "H", "I", "J", "K", "L", "M", "N", "O",
     "P", "Q", "R", "S", "T", "U", "V", "W", "X", "Y", "Z", "[", "\\", "]", "^", "_",
     "GRAVE", "a", "b", "c", "d", "e", "f", "g", "h", "i", "j", "k", "l", "m", "n", "o",
     "p", "q", "r", "s", "t", "u", "v", "w", "x", "y", "z", "{", "|", "}", "~" >>

\* The byte value of a character (unsigned char).
CharCode(c) ==
  IF c = "NUL" THEN 0
  ELSE IF c = "BS" THEN 8
  ELSE IF c = "\f" THEN 12
  ELSE IF c = "\t" THEN 9
  ELSE IF c = "\n" THEN 10
  ELSE IF c = "\r" THEN 13
  ELSE 31 + (CHOOSE i \in 1..Len(AsciiTable) : AsciiTable[i] = c)

Digits == {"0", "1", "2", "3", "4", "5", "6", "7", "8", "9"}
Lower == {"a", "b", "c", "d", "e", "f", "g", "h", "i", "j", "k", "l", "m",
          "n", "o", "p", "q", "r", "s", "t", "u", "v", "w", "x", "y", "z"}
Upper == {"A", "B", "C", "D", "E", "F", "G", "H", "I", "J", "K", "L", "M",
          "N", "O", "P", "Q", "R", "S", "T", "U", "V", "W", "X", "Y", "Z"}

isdigit(c) == c \in Digits
isalpha(c) == c \in Lower \cup Upper
isalnum(c) == isalpha(c) \/ isdigit(c)
isspace(c) == c \in {" ", "\t", "\n", "\r", "\f"}

DigitValue(c) == CharCode(c) - 48

NUL == "NUL"   \* the character '\0' that s[s.size()] and Lexer::current() yield

\* std::string operator< : byte-wise lexicographic order.
RECURSIVE StrLess(_, _)
StrLess(a, b) ==
  IF b = <<>> THEN FALSE
  ELSE IF a = <<>> THEN TRUE
  ELSE IF CharCode(Head(a)) < CharCode(Head(b)) THEN TRUE
  ELSE IF CharCode(Head(a)) > CharCode(Head(b)) THEN FALSE
  ELSE StrLess(Tail(a), Tail(b))

\* std::to_string(long long)
RECURSIVE NatToText(_)
NatToText(n) ==
  IF n < 10 THEN <<AsciiTable[17 + n]>>
  ELSE NatToText(n \div 10) \o <<AsciiTable[17 + (n % 10)]>>

IntToText(n) == IF n < 0 THEN <<"-">> \o NatToText(0 - n) ELSE NatToText(n)

-----------------------------------------------------------------------------
(* JvValue *)

NullPtr == [t |-> "nullptr"]   \* an empty JvValuePtr
JvNull == [t |-> "null"]
JvBoolean(v) == [t |-> "boolean", b |-> v]
JvNumber(v) == [t |-> "number", n |-> v]
JvString(v) == [t |-> "string", s |-> v]
JvArray(v) == [t |-> "array", a |-> v]
\* An object is its std::map in iteration order: <<key, value>> pairs, keys ascending.
JvObject(v) == [t |-> "object", o |-> v]

is_null(v) == v.t = "null"
is_bool(v) == v.t = "boolean"
is_number(v) == v.t = "number"
is_string(v) == v.t = "string"
is_array(v) == v.t = "array"
is_object(v) == v.t = "object"

\* JvValue::array_index(size_t i); i is the C++ index, from 0.
array_index(v, i) ==
  IF v.t # "array" \/ i >= Len(v.a) THEN JvNull ELSE v.a[i + 1]

\* std::map::find on the pair sequence: found or not, and the mapped value.
map_has(o, key) == \E k \in 1..Len(o) : o[k][1] = key
map_get(o, key) == o[CHOOSE k \in 1..Len(o) : o[k][1] = key][2]

\* JvValue::object_get
object_get(v, key) ==
  IF v.t # "object" THEN JvNull
  ELSE IF map_has(v.o, key) THEN map_get(v.o, key)
  ELSE JvNull

\* std::map::operator[] assignment on the pair sequence: replace, or insert in key order.
map_set(o, key, val) ==
  IF \E k \in 1..Len(o) : o[k][1] = key
  THEN [k \in 1..Len(o) |-> IF o[k][1] = key THEN <<key, val>> ELSE o[k]]
  ELSE LET before == SelectSeq(o, LAMBDA e : StrLess(e[1], key))
           after == SelectSeq(o, LAMBDA e : StrLess(key, e[1]))
       IN before \o <<<<key, val>>>> \o after

\* JvValue::array_push
array_push(v, e) == IF v.t = "array" THEN JvArray(Append(v.a, e)) ELSE v

\* JvValue::object_set
object_set(v, key, val) ==
  IF v.t = "object" THEN JvObject(map_set(v.o, key, val)) ELSE v

\* The escaping loop of JvValue::to_string for a string payload.
RECURSIVE escape_string(_)
escape_string(s) ==
  IF s = <<>> THEN <<>>
  ELSE LET c == Head(s)
           e == IF c = "\"" THEN <<"\\", "\"">>
                ELSE IF c = "\\" THEN <<"\\", "\\">>
                ELSE IF c = "\n" THEN <<"\\", "n">>
                ELSE IF c = "\r" THEN <<"\\", "r">>
                ELSE IF c = "\t" THEN <<"\\", "t">>
                ELSE <<c>>
       IN e \o escape_string(Tail(s))

\* JvValue::to_string
RECURSIVE to_string(_)
RECURSIVE to_string_array(_, _)
RECURSIVE to_string_object(_, _)
to_string(v) ==
  IF v.t = "null" THEN <<"n", "u", "l", "l">>
  ELSE IF v.t = "boolean"
       THEN (IF v.b THEN <<"t", "r", "u", "e">> ELSE <<"f", "a", "l", "s", "e">>)
  ELSE IF v.t = "number" THEN IntToText(v.n)
  ELSE IF v.t = "string" THEN <<"\"">> \o escape_string(v.s) \o <<"\"">>
  ELSE IF v.t = "array" THEN <<"[">> \o to_string_array(v.a, 1) \o <<"]">>
  ELSE IF v.t = "object" THEN <<"{">> \o to_string_object(v.o, 1) \o <<"}">>
  ELSE <<"n", "u", "l", "l">>
to_string_array(a, i) ==
  IF i > Len(a) THEN <<>>
  ELSE (IF i > 1 THEN <<",">> ELSE <<>>) \o to_string(a[i]) \o to_string_array(a, i + 1)
to_string_object(o, i) ==
  IF i > Len(o) THEN <<>>
  ELSE (IF i > 1 THEN <<",">> ELSE <<>>)
       \o <<"\"">> \o o[i][1] \o <<"\"", ":">> \o to_string(o[i][2])
       \o to_string_object(o, i + 1)

\* A character sequence as one string (for error messages and the caller's strings).
RECURSIVE Text2Str(_)
Text2Str(s) == IF s = <<>> THEN "" ELSE Head(s) \o Text2Str(Tail(s))

-----------------------------------------------------------------------------
(* JsonDOMParser (libjsonval): text -> JsonValue *)

\* s[i] for a C++ index i (from 0); s[s.size()] is '\0'.
CharAt(s, i) == IF i < Len(s) THEN s[i + 1] ELSE NUL

DomValue(t) == [t |-> t, b |-> FALSE, n |-> 0, s |-> <<>>, o |-> <<>>, a |-> <<>>]

AtLineColumn(st) == "line " \o ToString(st.line) \o ", column " \o ToString(st.column)

\* JsonDOMParser::skip_ws; st = [i, line, column]
RECURSIVE skip_ws(_, _)
skip_ws(s, st) ==
  IF st.i < Len(s) /\ isspace(s[st.i + 1])
  THEN skip_ws(s, IF s[st.i + 1] = "\n"
                  THEN [i |-> st.i + 1, line |-> st.line + 1, column |-> 1]
                  ELSE [i |-> st.i + 1, line |-> st.line, column |-> st.column + 1])
  ELSE st

DomFail(st, msg) == [ok |-> FALSE, v |-> DomValue("T_NULL"), st |-> st, err |-> msg]
DomDone(st, v) == [ok |-> TRUE, v |-> v, st |-> st, err |-> ""]
DomMoved(st, k) == [i |-> st.i + k, line |-> st.line, column |-> st.column + k]

\* The end of a run of digits starting at C++ index j.
RECURSIVE SkipDigits(_, _)
SkipDigits(s, j) == IF j < Len(s) /\ isdigit(s[j + 1]) THEN SkipDigits(s, j + 1) ELSE j

\* The value of a run of digits.
RECURSIVE DigitsValue(_)
DigitsValue(d) ==
  IF d = <<>> THEN 0 ELSE 10 * DigitsValue(SubSeq(d, 1, Len(d) - 1)) + DigitValue(d[Len(d)])

\* std::strtod on the text parse_number collected: [-] digits [. digits].
\* Without any digit the conversion fails and n keeps its initial 0.
\* (Number payloads are integers here: the input sets hold no non-zero fraction.)
strtod(t) ==
  IF t # <<>> /\ Head(t) = "-"
  THEN 0 - DigitsValue(SubSeq(t, 2, SkipDigits(t, 1)))
  ELSE DigitsValue(SubSeq(t, 1, SkipDigits(t, 0)))

\* The end of the text JsonDOMParser::parse_number collects from index i:
\* [-] digits [. digits]
number_end(s, i) ==
  Bind(SkipDigits(s, IF CharAt(s, i) = "-" THEN i + 1 ELSE i), LAMBDA j :
    IF j < Len(s) /\ s[j + 1] = "." THEN SkipDigits(s, j + 1) ELSE j)

\* JsonDOMParser::parse_number
dom_parse_number(s, st) ==
  Bind(number_end(s, st.i), LAMBDA j :
    DomDone(DomMoved(st, j - st.i),
            [DomValue("T_NUMBER") EXCEPT !.n = strtod(SubSeq(s, st.i + 1, j))]))

\* s.compare(i, n, lit) == 0
CompareAt(s, i, lit) ==
  SubSeq(s, i + 1, IF i + Len(lit) <= Len(s) THEN i + Len(lit) ELSE Len(s)) = lit

\* JsonDOMParser::parse_literal
dom_parse_literal(s, st) ==
  IF CompareAt(s, st.i, <<"t", "r", "u", "e">>)
  THEN DomDone(DomMoved(st, 4), [DomValue("T_BOOL") EXCEPT !.b = TRUE])
  ELSE IF CompareAt(s, st.i, <<"f", "a", "l", "s", "e">>)
  THEN DomDone(DomMoved(st, 5), [DomValue("T_BOOL") EXCEPT !.b = FALSE])
  ELSE IF CompareAt(s, st.i, <<"n", "u", "l", "l">>)
  THEN DomDone(DomMoved(st, 4), DomValue("T_NULL"))
  ELSE DomFail(st, "invalid literal at " \o AtLineColumn(st))

\* The while loop of JsonDOMParser::parse_string from index j, with temp_line,
\* temp_column and collected; ends "closed" (at the closing quote), "unfinished"
\* (a backslash at the end) or "unterminated".
RECURSIVE dom_string_loop(_, _, _, _, _)
dom_string_loop(s, j, tl, tc, collected) ==
  IF ~(j < Len(s))
  THEN [end |-> "unterminated", j |-> j, tl |-> tl, tc |-> tc, collected |-> collected]
  ELSE LET c == s[j + 1]
           tl1 == IF c = "\n" THEN tl + 1 ELSE tl
           tc1 == IF c = "\n" THEN 1 ELSE tc + 1
       IN IF c = "\\"
          THEN IF j + 1 < Len(s)
               THEN LET e == s[j + 2]
                    IN dom_string_loop(s, j + 2,
                                       IF e = "\n" THEN tl1 + 1 ELSE tl1,
                                       IF e = "\n" THEN 1 ELSE tc1 + 1,
                                       Append(collected, e))
               ELSE [end |-> "unfinished", j |-> j, tl |-> tl1, tc |-> tc1,
                     collected |-> collected]
          ELSE IF c = "\""
          THEN [end |-> "closed", j |-> j, tl |-> tl1, tc |-> tc1, collected |-> collected]
          ELSE dom_string_loop(s, j + 1, tl1, tc1, Append(collected, c))

\* JsonDOMParser::parse_string
dom_parse_string(s, st) ==
  IF CharAt(s, st.i) # "\""
  THEN DomFail(st, "expected '\"' at " \o AtLineColumn(st))
  ELSE Bind(dom_string_loop(s, st.i + 1, st.line, st.column + 1, <<>>), LAMBDA r :
         IF r.end = "unfinished"
         THEN DomFail(st, "unfinished escape in string at "
                          \o AtLineColumn([line |-> r.tl, column |-> r.tc]))
         ELSE IF r.end = "unterminated"
         THEN DomFail(st, "unterminated string at "
                          \o AtLineColumn([line |-> r.tl, column |-> r.tc]))
         ELSE DomDone([i |-> r.j + 1, line |-> r.tl, column |-> r.tc],
                      [DomValue("T_STRING") EXCEPT !.s = r.collected]))

RECURSIVE dom_parse_value(_, _)
RECURSIVE dom_object_loop(_, _, _)
RECURSIVE dom_array_loop(_, _, _)

\* The while (true) loop of JsonDOMParser::parse_object; o is out.o so far.
dom_object_loop(s, st, o) ==
  Bind(dom_parse_string(s, skip_ws(s, st)), LAMBDA keyr :
    IF ~keyr.ok THEN keyr
    ELSE Bind(skip_ws(s, keyr.st), LAMBDA st1 :
      IF st1.i >= Len(s) \/ s[st1.i + 1] # ":"
      THEN DomFail(st1, "expected ':' after object key at " \o AtLineColumn(st1))
      ELSE Bind(dom_parse_value(s, skip_ws(s, DomMoved(st1, 1))), LAMBDA valr :
        IF ~valr.ok THEN valr
        ELSE Bind(skip_ws(s, valr.st), LAMBDA st2 :
          IF st2.i < Len(s) /\ s[st2.i + 1] = ","
          THEN dom_object_loop(s, DomMoved(st2, 1), map_set(o, keyr.v.s, valr.v))
          ELSE IF st2.i < Len(s) /\ s[st2.i + 1] = "}"
          THEN DomDone(DomMoved(st2, 1),
                       [DomValue("T_OBJECT") EXCEPT !.o = map_set(o, keyr.v.s, valr.v)])
          ELSE DomFail(st2, "expected ',' or '}' in object at " \o AtLineColumn(st2))))))

\* JsonDOMParser::parse_object
dom_parse_object(s, st) ==
  IF CharAt(s, st.i) # "{" THEN DomFail(st, "expected '{' at " \o AtLineColumn(st))
  ELSE Bind(skip_ws(s, DomMoved(st, 1)), LAMBDA st1 :
         IF st1.i < Len(s) /\ s[st1.i + 1] = "}"
         THEN DomDone(DomMoved(st1, 1), DomValue("T_OBJECT"))
         ELSE dom_object_loop(s, st1, <<>>))

\* The while (true) loop of JsonDOMParser::parse_array; a is out.a so far.
dom_array_loop(s, st, a) ==
  Bind(dom_parse_value(s, skip_ws(s, st)), LAMBDA elemr :
    IF ~elemr.ok THEN elemr
    ELSE Bind(skip_ws(s, elemr.st), LAMBDA st1 :
      IF st1.i < Len(s) /\ s[st1.i + 1] = ","
      THEN dom_array_loop(s, DomMoved(st1, 1), Append(a, elemr.v))
      ELSE IF st1.i < Len(s) /\ s[st1.i + 1] = "]"
      THEN DomDone(DomMoved(st1, 1), [DomValue("T_ARRAY") EXCEPT !.a = Append(a, elemr.v)])
      ELSE DomFail(st1, "expected ',' or ']' in array at " \o AtLineColumn(st1))))

\* JsonDOMParser::parse_array
dom_parse_array(s, st) ==
  IF CharAt(s, st.i) # "[" THEN DomFail(st, "expected '[' at " \o AtLineColumn(st))
  ELSE Bind(skip_ws(s, DomMoved(st, 1)), LAMBDA st1 :
         IF st1.i < Len(s) /\ s[st1.i + 1] = "]"
         THEN DomDone(DomMoved(st1, 1), DomValue("T_ARRAY"))
         ELSE dom_array_loop(s, st1, <<>>))

\* The switch of JsonDOMParser::parse_value on the character c at st.
dom_value_at(s, st, c) ==
  IF c = "{" THEN dom_parse_object(s, st)
  ELSE IF c = "[" THEN dom_parse_array(s, st)
  ELSE IF c = "\"" THEN dom_parse_string(s, st)
  ELSE IF c \in {"t", "f", "n"} THEN dom_parse_literal(s, st)
  ELSE IF c = "-" \/ isdigit(c) THEN dom_parse_number(s, st)
  ELSE DomFail(st, "unexpected character '" \o c \o "' at " \o AtLineColumn(st))

\* JsonDOMParser::parse_value
dom_parse_value(s, st0) ==
  Bind(skip_ws(s, st0), LAMBDA st :
    IF st.i >= Len(s) THEN DomFail(st, "unexpected end of input at " \o AtLineColumn(st))
    ELSE dom_value_at(s, st, s[st.i + 1]))

\* parse_json_dom: [ok, v, err]
parse_json_dom(text) ==
  Bind(dom_parse_value(text, [i |-> 0, line |-> 1, column |-> 1]), LAMBDA r :
    IF ~r.ok THEN [ok |-> FALSE, v |-> r.v, err |-> r.err]
    ELSE IF skip_ws(text, r.st).i # Len(text)
    THEN [ok |-> FALSE, v |-> r.v, err |-> "trailing data after JSON value"]
    ELSE [ok |-> TRUE, v |-> r.v, err |-> ""])

\* from_json_value: JsonValue -> JvValue
RECURSIVE from_json_value(_)
from_json_value(jv) ==
  IF jv.t = "T_NULL" THEN JvNull
  ELSE IF jv.t = "T_BOOL" THEN JvBoolean(jv.b)
  ELSE IF jv.t = "T_NUMBER" THEN JvNumber(jv.n)
  ELSE IF jv.t = "T_STRING" THEN JvString(jv.s)
  ELSE IF jv.t = "T_ARRAY"
       THEN JvArray([k \in 1..Len(jv.a) |-> from_json_value(jv.a[k])])
  ELSE JvObject([k \in 1..Len(jv.o) |-> <<jv.o[k][1], from_json_value(jv.o[k][2])>>])

\* JvValue::from_string: [v, err_set, err]; on a parse failure the result is
\* JvValue::null(), a JvValue of type null, not an empty pointer.
from_string(json_text) ==
  Bind(parse_json_dom(json_text), LAMBDA r :
    IF ~r.ok THEN [v |-> JvNull, err_set |-> TRUE, err |-> r.err]
    ELSE [v |-> from_json_value(r.v), err_set |-> FALSE, err |-> ""])


-----------------------------------------------------------------------------
(* Lexer: filter text -> tokens.  A lexer state is [pos, line, column]. *)

Token(type, value, line, column) ==
  [type |-> type, value |-> value, line |-> line, column |-> column]

\* Lexer::current
Lexer_current(input, ls) == IF ls.pos >= Len(input) THEN NUL ELSE input[ls.pos + 1]

\* Lexer::peek(offset = 1)
Lexer_peek(input, ls) == IF ls.pos + 1 >= Len(input) THEN NUL ELSE input[ls.pos + 2]

\* Lexer::advance
Lexer_advance(input, ls) ==
  IF ls.pos < Len(input)
  THEN IF input[ls.pos + 1] = "\n"
       THEN [pos |-> ls.pos + 1, line |-> ls.line + 1, column |-> 1]
       ELSE [pos |-> ls.pos + 1, line |-> ls.line, column |-> ls.column + 1]
  ELSE ls

\* Lexer::skip_whitespace
RECURSIVE skip_whitespace(_, _)
skip_whitespace(input, ls) ==
  IF isspace(Lexer_current(input, ls))
  THEN skip_whitespace(input, Lexer_advance(input, ls))
  ELSE ls

\* Lexer::skip_comment
RECURSIVE skip_comment_loop(_, _)
skip_comment_loop(input, ls) ==
  IF Lexer_current(input, ls) # "\n" /\ Lexer_current(input, ls) # NUL
  THEN skip_comment_loop(input, Lexer_advance(input, ls))
  ELSE ls
skip_comment(input, ls) ==
  IF Lexer_current(input, ls) = "#" THEN skip_comment_loop(input, ls) ELSE ls

\* The loop of Lexer::next_token that drops comments and the space after them.
RECURSIVE skip_comments(_, _)
skip_comments(input, ls) ==
  IF Lexer_current(input, ls) = "#"
  THEN skip_comments(input, skip_whitespace(input, skip_comment(input, ls)))
  ELSE ls

\* while (isdigit(current())) { num += current(); advance(); } : [text, ls]
RECURSIVE read_digits(_, _, _)
read_digits(input, ls, num) ==
  IF isdigit(Lexer_current(input, ls))
  THEN read_digits(input, Lexer_advance(input, ls), Append(num, Lexer_current(input, ls)))
  ELSE [text |-> num, ls |-> ls]

\* if (current() is one of cs) { num += current(); advance(); }
read_optional(input, r, cs) ==
  IF Lexer_current(input, r.ls) \in cs
  THEN [text |-> Append(r.text, Lexer_current(input, r.ls)),
        ls |-> Lexer_advance(input, r.ls)]
  ELSE r

\* The digits of Lexer::read_number after what r holds.
read_more_digits(input, r) == read_digits(input, r.ls, r.text)

\* if (current() == '.') { ... } of Lexer::read_number
read_fraction(input, r) ==
  IF Lexer_current(input, r.ls) = "."
  THEN read_more_digits(input, read_optional(input, r, {"."}))
  ELSE r

\* if (current() == 'e' || current() == 'E') { ... } of Lexer::read_number
read_exponent(input, r) ==
  IF Lexer_current(input, r.ls) \in {"e", "E"}
  THEN read_more_digits(input,
         read_optional(input, read_optional(input, r, {"e", "E"}), {"+", "-"}))
  ELSE r

\* return Token(TokenType::NUMBER, num, start_line, start_col)
number_token(ls, r) == [tok |-> Token("NUMBER", r.text, ls.line, ls.column), ls |-> r.ls]

\* Lexer::read_number : [tok, ls]
read_number(input, ls) ==
  number_token(ls,
    read_exponent(input,
      read_fraction(input,
        read_more_digits(input,
          read_optional(input, [text |-> <<>>, ls |-> ls], {"-"})))))

\* The character an escape sequence of Lexer::read_string stands for.
Unescape(c) ==
  IF c = "n" THEN "\n"
  ELSE IF c = "t" THEN "\t"
  ELSE IF c = "r" THEN "\r"
  ELSE IF c = "b" THEN "BS"
  ELSE IF c = "f" THEN "\f"
  ELSE c

\* The while loop of Lexer::read_string : [text, ls]
RECURSIVE read_string_loop(_, _, _)
read_string_loop(input, ls, str) ==
  IF Lexer_current(input, ls) # "\"" /\ Lexer_current(input, ls) # NUL
  THEN IF Lexer_current(input, ls) = "\\"
       THEN read_string_loop(input, Lexer_advance(input, Lexer_advance(input, ls)),
                             Append(str, Unescape(Lexer_current(input, Lexer_advance(input, ls)))))
       ELSE read_string_loop(input, Lexer_advance(input, ls),
                             Append(str, Lexer_current(input, ls)))
  ELSE [text |-> str, ls |-> ls]

\* The end of Lexer::read_string: the closing quote is consumed if it is there.
string_token(input, ls, r) ==
  [tok |-> Token("STRING", r.text, ls.line, ls.column),
   ls |-> IF Lexer_current(input, r.ls) = "\"" THEN Lexer_advance(input, r.ls) ELSE r.ls]

\* Lexer::read_string : [tok, ls]
read_string(input, ls) ==
  string_token(input, ls, read_string_loop(input, Lexer_advance(input, ls), <<>>))

\* The while loop of Lexer::read_identifier : [text, ls]
RECURSIVE read_identifier_loop(_, _, _)
read_identifier_loop(input, ls, id) ==
  IF isalnum(Lexer_current(input, ls)) \/ Lexer_current(input, ls) \in {"_", "$"}
  THEN read_identifier_loop(input, Lexer_advance(input, ls),
                            Append(id, Lexer_current(input, ls)))
  ELSE [text |-> id, ls |-> ls]

\* The keyword checks of Lexer::read_identifier.
identifier_type(id) ==
  IF id = <<"t", "r", "u", "e">> THEN "TRUE"
  ELSE IF id = <<"f", "a", "l", "s", "e">> THEN "FALSE"
  ELSE IF id = <<"n", "u", "l", "l">> THEN "NULL_VALUE"
  ELSE IF id = <<"a", "n", "d">> THEN "AND"
  ELSE IF id = <<"o", "r">> THEN "OR"
  ELSE IF id = <<"n", "o", "t">> THEN "NOT"
  ELSE "IDENTIFIER"

identifier_token(ls, r) ==
  [tok |-> Token(identifier_type(r.text), r.text, ls.line, ls.column), ls |-> r.ls]

\* Lexer::read_identifier : [tok, ls]
read_identifier(input, ls) == identifier_token(ls, read_identifier_loop(input, ls, <<>>))

\* The two-character operators of Lexer::next_token, as <<first, second, type>>.
TwoCharOperators ==
  { <<"=", "=", "EQ">>, <<"!", "=", "NE">>, <<"<", "=", "LE">>, <<">", "=", "GE">>,
    <<"|", "=", "UPDATE">>, <<"+", "=", "PLUS_ASSIGN">>, <<"/", "/", "DOUBLE_SLASH">>,
    <<".", ".", "RECURSIVE">> }

\* The switch of Lexer::next_token over a single character.
SingleCharType(ch) ==
  CASE ch = "." -> "DOT"
    [] ch = "|" -> "PIPE"
    [] ch = "," -> "COMMA"
    [] ch = ";" -> "SEMICOLON"
    [] ch = ":" -> "COLON"
    [] ch = "+" -> "PLUS"
    [] ch = "-" -> "MINUS"
    [] ch = "*" -> "STAR"
    [] ch = "/" -> "SLASH"
    [] ch = "%" -> "PERCENT"
    [] ch = "=" -> "ASSIGN"
    [] ch = "<" -> "LT"
    [] ch = ">" -> "GT"
    [] ch = "(" -> "LPAREN"
    [] ch = ")" -> "RPAREN"
    [] ch = "[" -> "LBRACKET"
    [] ch = "]" -> "RBRACKET"
    [] ch = "{" -> "LBRACE"
    [] ch = "}" -> "RBRACE"
    [] ch = "?" -> "QUESTION"
    [] OTHER -> "ERROR"

\* The type of the two-character operator ch nx, "" when there is none.
TwoCharType(ch, nx) ==
  IF \E op \in TwoCharOperators : op[1] = ch /\ op[2] = nx
  THEN (CHOOSE op \in TwoCharOperators : op[1] = ch /\ op[2] = nx)[3]
  ELSE ""

\* Lexer::next_token once white space and comments are skipped : [tok, ls]
token_at(input, ls, ch, nx) ==
  IF ch = NUL THEN [tok |-> Token("EOF_TOKEN", <<>>, ls.line, ls.column), ls |-> ls]
  ELSE IF isdigit(ch) \/ (ch = "-" /\ isdigit(nx)) THEN read_number(input, ls)
  ELSE IF ch = "\"" THEN read_string(input, ls)
  ELSE IF isalpha(ch) \/ ch = "_" \/ ch = "$" THEN read_identifier(input, ls)
  ELSE IF TwoCharType(ch, nx) # ""
  THEN [tok |-> Token(TwoCharType(ch, nx), <<ch, nx>>, ls.line, ls.column),
        ls |-> Lexer_advance(input, Lexer_advance(input, ls))]
  ELSE [tok |-> Token(SingleCharType(ch), <<ch>>, ls.line, ls.column),
        ls |-> Lexer_advance(input, ls)]

\* A next_token that hands back the token and leaves the position where it was.
next_token_staying(input, ls0) ==
  Bind(skip_comments(input, skip_whitespace(input, ls0)), LAMBDA ls :
    [tok |-> token_at(input, ls, Lexer_current(input, ls), Lexer_peek(input, ls)).tok,
     ls |-> ls0])

\* Lexer::next_token : [tok, ls]
next_token(input, ls0) ==
  Bind(skip_comments(input, skip_whitespace(input, ls0)), LAMBDA ls :
    token_at(input, ls, Lexer_current(input, ls), Lexer_peek(input, ls)))

\* Lexer::tokenize
RECURSIVE tokenize_loop(_, _, _)
tokenize_loop(input, ls, tokens) ==
  Bind(next_token(input, ls), LAMBDA r :
    IF r.tok.type # "EOF_TOKEN" /\ r.tok.type # "ERROR"
    THEN tokenize_loop(input, r.ls, Append(tokens, r.tok))
    ELSE Append(tokens, r.tok))
tokenize(input) == tokenize_loop(input, [pos |-> 0, line |-> 1, column |-> 1], <<>>)


-----------------------------------------------------------------------------
(* Parser: tokens -> AST.  A parser state is [pos, error_msg]; a parse function
   yields [node, ps, threw], threw when a C++ exception left it. *)

NullAst == [type |-> "nullptr"]   \* an empty ASTNodePtr

ASTNode(type) ==
  [type |-> type, name |-> <<>>, op |-> <<>>, literal |-> NullPtr, children |-> <<>>]

make_literal(val) == [ASTNode("LITERAL") EXCEPT !.literal = val]
make_identity == ASTNode("IDENTITY")
make_field(field_name) == [ASTNode("FIELD") EXCEPT !.name = field_name]
make_pipe(left, right) == [ASTNode("PIPE") EXCEPT !.children = <<left, right>>]
make_node(type, children) == [ASTNode(type) EXCEPT !.children = children]
make_binary(type, op, left, right) ==
  [ASTNode(type) EXCEPT !.op = op, !.children = <<left, right>>]

\* Parser::current
Parser_current(tokens, ps) ==
  IF ps.pos >= Len(tokens) THEN Token("EOF_TOKEN", <<>>, 0, 0) ELSE tokens[ps.pos + 1]

CurType(tokens, ps) == Parser_current(tokens, ps).type

\* Parser::advance
Parser_advance(tokens, ps) ==
  IF ps.pos < Len(tokens) THEN [ps EXCEPT !.pos = ps.pos + 1] ELSE ps

\* Parser::expect: the parser state after it (no caller reads its result).
expect(tokens, ps, type) ==
  IF CurType(tokens, ps) # type
  THEN [ps EXCEPT !.error_msg =
          "Expected token type at line " \o ToString(Parser_current(tokens, ps).line)]
  ELSE Parser_advance(tokens, ps)

Parsed(node, ps) == [node |-> node, ps |-> ps, threw |-> FALSE]
Thrown(ps, what) == [node |-> NullAst, ps |-> [ps EXCEPT !.error_msg = what], threw |-> TRUE]

RECURSIVE Pow10(_)
Pow10(e) == IF e = 0 THEN 1 ELSE 10 * Pow10(e - 1)

\* The exponent of a number text whose mantissa ends at index k: [neg, value]
stod_exponent(text, k) ==
  IF ~(k < Len(text) /\ text[k + 1] \in {"e", "E"}) THEN [neg |-> FALSE, value |-> 0]
  ELSE Bind(IF k + 1 < Len(text) /\ text[k + 2] \in {"+", "-"} THEN k + 2 ELSE k + 1,
            LAMBDA k2 :
              [neg |-> k + 1 < Len(text) /\ text[k + 2] = "-",
               value |-> DigitsValue(SubSeq(text, k2 + 1, SkipDigits(text, k2)))])

\* The double of sign, mantissa and exponent: [ok, n]; not ok stands for
\* std::out_of_range.
stod_value(neg, mant, exp) ==
  IF mant # 0 /\ exp.value > 308
  THEN [ok |-> FALSE, n |-> 0]
  ELSE [ok |-> TRUE,
        n |-> IF mant = 0 \/ exp.neg THEN 0
              ELSE (IF neg THEN -1 ELSE 1) * mant * Pow10(exp.value)]

\* std::stod on the text of a NUMBER token, [-] digits [. digits] [(e|E) [+|-] digits]:
\* [ok, n], not ok when it throws std::out_of_range (a non-zero value with a
\* decimal exponent outside the range of double).  An exponent without digits
\* is not part of the number.
\* (Number payloads are integers here: the filter sets hold no non-zero fraction
\* and no negative exponent inside the range.)
stod(text) ==
  stod_value(Head(text) = "-", IF Head(text) = "-" THEN 0 - strtod(text) ELSE strtod(text),
             stod_exponent(text, number_end(text, 0)))

RECURSIVE parse_pipe(_, _)
RECURSIVE parse_pipe_loop(_, _)
RECURSIVE parse_comma(_, _)
RECURSIVE parse_comma_loop(_, _, _)
RECURSIVE parse_alternative(_, _)
RECURSIVE parse_alternative_loop(_, _)
RECURSIVE parse_comparison(_, _)
RECURSIVE parse_comparison_loop(_, _)
RECURSIVE parse_additive(_, _)
RECURSIVE parse_additive_loop(_, _)
RECURSIVE parse_multiplicative(_, _)
RECURSIVE parse_multiplicative_loop(_, _)
RECURSIVE parse_postfix(_, _)
RECURSIVE parse_postfix_loop(_, _)
RECURSIVE parse_primary(_, _)
RECURSIVE parse_array(_, _)
RECURSIVE parse_object(_, _)
RECURSIVE parse_object_loop(_, _, _)
RECURSIVE parse_object_key(_, _)
RECURSIVE parse_bracket(_, _, _, _)
RECURSIVE parse_postfix_step(_, _, _)
RECURSIVE primary_at(_, _, _, _)
RECURSIVE parse_unary(_, _, _)
RECURSIVE parse_function_call(_, _, _)
RECURSIVE parse_function_call_loop(_, _, _)

\* Parser::parse_pipe; the loop takes the result so far (left).
parse_pipe(tokens, ps) ==
  Bind(parse_comma(tokens, ps), LAMBDA left :
    IF left.threw THEN left ELSE parse_pipe_loop(tokens, left))
parse_pipe_loop(tokens, left) ==
  IF CurType(tokens, left.ps) = "PIPE"
  THEN Bind(parse_comma(tokens, Parser_advance(tokens, left.ps)), LAMBDA right :
         IF right.threw THEN right
         ELSE parse_pipe_loop(tokens, Parsed(make_pipe(left.node, right.node), right.ps)))
  ELSE left

\* Parser::parse_comma
parse_comma(tokens, ps) ==
  Bind(parse_alternative(tokens, ps), LAMBDA left :
    IF left.threw \/ CurType(tokens, left.ps) # "COMMA" THEN left
    ELSE parse_comma_loop(tokens, left.ps, <<left.node>>))
parse_comma_loop(tokens, ps, children) ==
  IF CurType(tokens, ps) = "COMMA"
  THEN Bind(parse_alternative(tokens, Parser_advance(tokens, ps)), LAMBDA next :
         IF next.threw THEN next
         ELSE parse_comma_loop(tokens, next.ps, Append(children, next.node)))
  ELSE Parsed(make_node("COMMA", children), ps)

\* Parser::parse_alternative
parse_alternative(tokens, ps) ==
  Bind(parse_comparison(tokens, ps), LAMBDA left :
    IF left.threw THEN left ELSE parse_alternative_loop(tokens, left))
parse_alternative_loop(tokens, left) ==
  IF CurType(tokens, left.ps) = "DOUBLE_SLASH"
  THEN Bind(parse_comparison(tokens, Parser_advance(tokens, left.ps)), LAMBDA right :
         IF right.threw THEN right
         ELSE parse_alternative_loop(tokens,
                Parsed(make_node("ALTERNATIVE", <<left.node, right.node>>), right.ps)))
  ELSE left

\* The BINARY_OP node of a binary operator with its operands, at right.ps.
binary_op(tokens, left, right) ==
  Parsed(make_binary("BINARY_OP", Parser_current(tokens, left.ps).value,
                     left.node, right.node),
         right.ps)

\* Parser::parse_comparison
parse_comparison(tokens, ps) ==
  Bind(parse_additive(tokens, ps), LAMBDA left :
    IF left.threw THEN left ELSE parse_comparison_loop(tokens, left))
parse_comparison_loop(tokens, left) ==
  IF CurType(tokens, left.ps) \in {"EQ", "NE", "LT", "LE", "GT", "GE"}
  THEN Bind(parse_additive(tokens, Parser_advance(tokens, left.ps)), LAMBDA right :
         IF right.threw THEN right
         ELSE parse_comparison_loop(tokens, binary_op(tokens, left, right)))
  ELSE left

\* Parser::parse_additive
parse_additive(tokens, ps) ==
  Bind(parse_multiplicative(tokens, ps), LAMBDA left :
    IF left.threw THEN left ELSE parse_additive_loop(tokens, left))
parse_additive_loop(tokens, left) ==
  IF CurType(tokens, left.ps) \in {"PLUS", "MINUS"}
  THEN Bind(parse_multiplicative(tokens, Parser_advance(tokens, left.ps)), LAMBDA right :
         IF right.threw THEN right
         ELSE parse_additive_loop(tokens, binary_op(tokens, left, right)))
  ELSE left

\* Parser::parse_multiplicative
parse_multiplicative(tokens, ps) ==
  Bind(parse_postfix(tokens, ps), LAMBDA left :
    IF left.threw THEN left ELSE parse_multiplicative_loop(tokens, left))
parse_multiplicative_loop(tokens, left) ==
  IF CurType(tokens, left.ps) \in {"STAR", "SLASH", "PERCENT"}
  THEN Bind(parse_postfix(tokens, Parser_advance(tokens, left.ps)), LAMBDA right :
         IF right.threw THEN right
         ELSE parse_multiplicative_loop(tokens, binary_op(tokens, left, right)))
  ELSE left

\* After '[' of an index: index_expr, ("]" expected), INDEX node.  [node, ps, threw]
parse_index_rest(tokens, index_expr) ==
  Parsed(make_node("INDEX", <<index_expr.node>>), expect(tokens, index_expr.ps, "RBRACKET"))

\* base piped into node: the result so far of Parser::parse_postfix, at ps.
piped(base, node, ps) == Parsed(make_pipe(base.node, node), ps)

\* After '[' (at ps, not at ']') of a postfix of base: an index or, where
\* with_slice (after '.'), a slice.  The result so far, or what was thrown.
parse_bracket(tokens, base, ps, with_slice) ==
  Bind(parse_pipe(tokens, ps), LAMBDA index_expr :
    IF index_expr.threw THEN index_expr
    ELSE IF with_slice /\ CurType(tokens, index_expr.ps) = "COLON"
    THEN Bind(parse_pipe(tokens, Parser_advance(tokens, index_expr.ps)), LAMBDA end_expr :
           IF end_expr.threw THEN end_expr
           ELSE piped(base, make_node("SLICE", <<index_expr.node, end_expr.node>>),
                      expect(tokens, end_expr.ps, "RBRACKET")))
    ELSE piped(base, make_node("INDEX", <<index_expr.node>>),
               expect(tokens, index_expr.ps, "RBRACKET")))

\* One round of the while (true) loop of Parser::parse_postfix on base, whose
\* next token is '.' or '[': the result so far after it, or what was thrown.
parse_postfix_step(tokens, base, ps1) ==
  IF CurType(tokens, base.ps) = "DOT"
  THEN IF CurType(tokens, ps1) = "IDENTIFIER"
       THEN piped(base, make_field(Parser_current(tokens, ps1).value),
                  Parser_advance(tokens, ps1))
       ELSE IF CurType(tokens, ps1) = "LBRACKET"
       THEN IF CurType(tokens, Parser_advance(tokens, ps1)) = "RBRACKET"
            THEN piped(base, ASTNode("ITERATOR"),
                       Parser_advance(tokens, Parser_advance(tokens, ps1)))
            ELSE parse_bracket(tokens, base, Parser_advance(tokens, ps1), TRUE)
       ELSE piped(base, make_identity, ps1)
  ELSE IF CurType(tokens, ps1) = "RBRACKET"
       THEN piped(base, ASTNode("ITERATOR"), Parser_advance(tokens, ps1))
       ELSE parse_bracket(tokens, base, ps1, FALSE)

\* Parser::parse_postfix; the loop takes the result so far (base).
parse_postfix(tokens, ps) ==
  Bind(parse_primary(tokens, ps), LAMBDA base :
    IF base.threw THEN base ELSE parse_postfix_loop(tokens, base))
parse_postfix_loop(tokens, base) ==
  IF CurType(tokens, base.ps) \in {"DOT", "LBRACKET"}
  THEN Bind(parse_postfix_step(tokens, base, Parser_advance(tokens, base.ps)), LAMBDA next :
         IF next.threw THEN next ELSE parse_postfix_loop(tokens, next))
  ELSE base

\* A unary operator of Parser::parse_primary: the operand is a postfix expression.
parse_unary(tokens, ps, op) ==
  Bind(parse_postfix(tokens, Parser_advance(tokens, ps)), LAMBDA operand :
    IF operand.threw THEN operand
    ELSE Parsed([ASTNode("UNARY_OP") EXCEPT !.op = op, !.children = <<operand.node>>],
                operand.ps))

\* case TokenType::NUMBER of Parser::parse_primary
number_literal(num, ps1) ==
  IF num.ok THEN Parsed(make_literal(JvNumber(num.n)), ps1) ELSE Thrown(ps1, "stod")

\* result, with the token of the given type expected after it
then_expect(tokens, result, type) ==
  IF result.threw THEN result ELSE Parsed(result.node, expect(tokens, result.ps, type))

\* Parser::parse_primary at the token tok; ps1 is the state after advance().
primary_at(tokens, ps, tok, ps1) ==
  CASE tok.type = "NUMBER" -> number_literal(stod(tok.value), ps1)
    [] tok.type = "STRING" -> Parsed(make_literal(JvString(tok.value)), ps1)
    [] tok.type = "TRUE" -> Parsed(make_literal(JvBoolean(TRUE)), ps1)
    [] tok.type = "FALSE" -> Parsed(make_literal(JvBoolean(FALSE)), ps1)
    [] tok.type = "NULL_VALUE" -> Parsed(make_literal(JvNull), ps1)
    [] tok.type = "DOT" ->
         IF CurType(tokens, ps1) = "IDENTIFIER"
         THEN Parsed(make_field(Parser_current(tokens, ps1).value),
                     Parser_advance(tokens, ps1))
         ELSE IF CurType(tokens, ps1) = "LBRACKET"
         THEN IF CurType(tokens, Parser_advance(tokens, ps1)) = "RBRACKET"
              THEN Parsed(ASTNode("ITERATOR"),
                          Parser_advance(tokens, Parser_advance(tokens, ps1)))
              ELSE Bind(parse_pipe(tokens, Parser_advance(tokens, ps1)), LAMBDA index_expr :
                     IF index_expr.threw THEN index_expr
                     ELSE parse_index_rest(tokens, index_expr))
         ELSE Parsed(make_identity, ps1)
    [] tok.type = "RECURSIVE" -> Parsed(ASTNode("RECURSIVE"), ps1)
    [] tok.type = "LPAREN" -> then_expect(tokens, parse_pipe(tokens, ps1), "RPAREN")
    [] tok.type = "LBRACKET" -> parse_array(tokens, ps)
    [] tok.type = "LBRACE" -> parse_object(tokens, ps)
    [] tok.type = "IDENTIFIER" ->
         IF CurType(tokens, ps1) = "LPAREN"
         THEN parse_function_call(tokens, ps1, tok.value)
         ELSE Parsed([ASTNode("FUNCTION_CALL") EXCEPT !.name = tok.value], ps1)
    [] tok.type = "MINUS" -> parse_unary(tokens, ps, <<"-">>)
    [] tok.type = "NOT" -> parse_unary(tokens, ps, <<"n", "o", "t">>)
    [] OTHER -> Thrown(ps, "Unexpected token in primary: " \o Text2Str(tok.value))

\* Parser::parse_primary
parse_primary(tokens, ps) ==
  primary_at(tokens, ps, Parser_current(tokens, ps), Parser_advance(tokens, ps))

\* body as the only child of an ARRAY node, with ']' expected after it
array_of(tokens, body) ==
  IF body.threw THEN body
  ELSE Parsed(make_node("ARRAY", <<body.node>>), expect(tokens, body.ps, "RBRACKET"))

\* Parser::parse_array
parse_array(tokens, ps) ==
  Bind(expect(tokens, ps, "LBRACKET"), LAMBDA ps1 :
    IF CurType(tokens, ps1) # "RBRACKET"
    THEN array_of(tokens, parse_pipe(tokens, ps1))
    ELSE Parsed(ASTNode("ARRAY"), expect(tokens, ps1, "RBRACKET")))

\* The key of an entry of Parser::parse_object: NullAst (a break) when the
\* token starts no key.
parse_object_key(tokens, ps) ==
  IF CurType(tokens, ps) \in {"STRING", "IDENTIFIER"}
  THEN Parsed(make_literal(JvString(Parser_current(tokens, ps).value)),
              Parser_advance(tokens, ps))
  ELSE IF CurType(tokens, ps) = "LPAREN"
  THEN then_expect(tokens, parse_pipe(tokens, Parser_advance(tokens, ps)), "RPAREN")
  ELSE Parsed(NullAst, ps)

\* The end of Parser::parse_object: '}' expected.
object_of(tokens, children, ps) ==
  Parsed(make_node("OBJECT", children), expect(tokens, ps, "RBRACE"))

\* Parser::parse_object; the loop takes node->children so far.
parse_object(tokens, ps) == parse_object_loop(tokens, expect(tokens, ps, "LBRACE"), <<>>)
parse_object_loop(tokens, ps, children) ==
  IF CurType(tokens, ps) \in {"RBRACE", "EOF_TOKEN"} THEN object_of(tokens, children, ps)
  ELSE Bind(parse_object_key(tokens, ps), LAMBDA key :
    IF key.threw THEN key
    ELSE IF key.node = NullAst THEN object_of(tokens, children, ps)
    ELSE Bind(parse_pipe(tokens, expect(tokens, key.ps, "COLON")), LAMBDA value :
      IF value.threw THEN value
      ELSE IF CurType(tokens, value.ps) = "COMMA"
      THEN parse_object_loop(tokens, Parser_advance(tokens, value.ps),
                             children \o <<key.node, value.node>>)
      ELSE object_of(tokens, children \o <<key.node, value.node>>, value.ps)))

\* The end of Parser::parse_function_call: ')' expected; args holds the children.
function_call_of(tokens, name, args) ==
  IF args.threw THEN args
  ELSE Parsed([ASTNode("FUNCTION_CALL") EXCEPT !.name = name, !.children = args.node],
              expect(tokens, args.ps, "RPAREN"))

\* The arguments of Parser::parse_function_call from the first on.
parse_arguments(tokens, first) ==
  IF first.threw THEN first
  ELSE parse_function_call_loop(tokens, first.ps, <<first.node>>)

\* Parser::parse_function_call
parse_function_call(tokens, ps, name) ==
  Bind(expect(tokens, ps, "LPAREN"), LAMBDA ps1 :
    IF CurType(tokens, ps1) # "RPAREN"
    THEN function_call_of(tokens, name, parse_arguments(tokens, parse_pipe(tokens, ps1)))
    ELSE function_call_of(tokens, name, Parsed(<<>>, ps1)))
\* while (current is ';') children.push_back(parse_pipe()) : node holds the children
parse_function_call_loop(tokens, ps, children) ==
  IF CurType(tokens, ps) = "SEMICOLON"
  THEN Bind(parse_pipe(tokens, Parser_advance(tokens, ps)), LAMBDA arg :
         IF arg.threw THEN arg
         ELSE parse_function_call_loop(tokens, arg.ps, Append(children, arg.node)))
  ELSE Parsed(children, ps)

\* Parser::parse : [node, error_msg]
parse(tokens) ==
  Bind(parse_pipe(tokens, [pos |-> 0, error_msg |-> ""]), LAMBDA r :
    IF r.threw THEN [node |-> NullAst, error_msg |-> r.ps.error_msg]
    ELSE IF CurType(tokens, r.ps) # "EOF_TOKEN"
    THEN [node |-> NullAst, error_msg |-> "Unexpected token after expression"]
    ELSE [node |-> r.node, error_msg |-> r.ps.error_msg])


-----------------------------------------------------------------------------
(* Bytecode: Program, ConstantPool, validate *)

Instruction(op, a, b) == [op |-> op, a |-> a, b |-> b]

EmptyProgram == [code |-> <<>>, pool |-> [strings |-> <<>>, numbers |-> <<>>]]
NullProgram == [code |-> "nullptr"]   \* an empty std::shared_ptr<Program>

\* An add_string that hands back the size of the vector instead of size - 1.
add_string_size(pool, str) ==
  [pool |-> [pool EXCEPT !.strings = Append(pool.strings, str)],
   id |-> Len(pool.strings) + 1]

\* ConstantPool::add_string : [pool, id]
add_string(pool, str) ==
  [pool |-> [pool EXCEPT !.strings = Append(pool.strings, str)],
   id |-> Len(pool.strings) + 1 - 1]

\* ConstantPool::add_number : [pool, id]
add_number(pool, v) ==
  [pool |-> [pool EXCEPT !.numbers = Append(pool.numbers, v)],
   id |-> Len(pool.numbers) + 1 - 1]

\* The check Program::validate makes of one instruction: "" when it passes.
validate_instruction(prog, ins) ==
  IF ins.op \in {"GET_FIELD", "GET_INDEX_STR"}
  THEN IF ins.a < 0 \/ ins.a >= Len(prog.pool.strings) THEN "string" ELSE ""
  ELSE IF ins.op \in {"GET_INDEX_NUM", "ADD_CONST"}
  THEN IF ins.a < 0 \/ ins.a >= Len(prog.pool.numbers) THEN "number" ELSE ""
  ELSE ""

\* Program::validate : [ok, err] (err as given when ok)
validate(prog, err) ==
  Bind({i \in 1..Len(prog.code) : validate_instruction(prog, prog.code[i]) # ""}, LAMBDA bad :
    IF bad = {} THEN [ok |-> TRUE, err |-> err]
    ELSE Bind(CHOOSE i \in bad : \A j \in bad : i <= j, LAMBDA i :
           [ok |-> FALSE,
            err |-> "Invalid " \o validate_instruction(prog, prog.code[i])
                    \o " pool index in instruction at pc=" \o ToString(i - 1)]))

-----------------------------------------------------------------------------
(* Compiler: AST -> Program *)

Emitted(prog, err) == [ok |-> TRUE, prog |-> prog, err |-> err]
EmitError(prog, msg) == [ok |-> FALSE, prog |-> prog, err |-> msg]

\* prog.code.push_back({op, a, -1})
push_code(prog, op, a) == [prog EXCEPT !.code = Append(prog.code, Instruction(op, a, -1))]

\* An emit that puts the instruction in front of the code.
emit_with_string_front(prog, op, str) ==
  Bind(add_string(prog.pool, str), LAMBDA r :
    [prog EXCEPT !.pool = r.pool, !.code = <<Instruction(op, r.id, -1)>> \o @])

\* pool.add_string(str) followed by code.push_back({op, sid, -1})
emit_with_string(prog, op, str) ==
  Bind(add_string(prog.pool, str), LAMBDA r :
    push_code([prog EXCEPT !.pool = r.pool], op, r.id))

\* pool.add_number(v) followed by code.push_back({op, nid, -1})
emit_with_number(prog, op, v) ==
  Bind(add_number(prog.pool, v), LAMBDA r :
    push_code([prog EXCEPT !.pool = r.pool], op, r.id))

\* Compiler::emit_node : [ok, prog, err]
RECURSIVE emit_node(_, _, _)
emit_node(node, prog, err) ==
  IF node = NullAst THEN EmitError(prog, "Null AST node")
  ELSE CASE node.type = "IDENTITY" -> Emitted(push_code(prog, "LOAD_IDENTITY", -1), err)
         [] node.type = "FIELD" -> Emitted(emit_with_string(prog, "GET_FIELD", node.name), err)
         [] node.type = "INDEX" ->
              IF node.children = <<>> THEN EmitError(prog, "Index node missing child")
              ELSE Bind(node.children[1], LAMBDA idx :
                     IF idx.type = "LITERAL" /\ idx.literal # NullPtr /\ is_number(idx.literal)
                     THEN Emitted(emit_with_number(prog, "GET_INDEX_NUM", idx.literal.n), err)
                     ELSE IF idx.type = "LITERAL" /\ idx.literal # NullPtr
                             /\ is_string(idx.literal)
                     THEN Emitted(emit_with_string(prog, "GET_INDEX_STR", idx.literal.s), err)
                     ELSE EmitError(prog, "Unsupported index expression"))
         [] node.type = "ITERATOR" -> Emitted(push_code(prog, "ITERATE", -1), err)
         [] node.type = "PIPE" ->
              IF Len(node.children) # 2 THEN EmitError(prog, "Pipe expects 2 children")
              ELSE Bind(emit_node(node.children[1], prog, err), LAMBDA l :
                     IF ~l.ok THEN l ELSE emit_node(node.children[2], l.prog, l.err))
         [] node.type = "BINARY_OP" ->
              IF node.op = <<"+">> /\ Len(node.children) = 2
              THEN Bind(emit_node(node.children[1], prog, err), LAMBDA l :
                     IF ~l.ok THEN l
                     ELSE Bind(node.children[2], LAMBDA rhs :
                       IF rhs # NullAst /\ rhs.type = "LITERAL" /\ rhs.literal # NullPtr
                          /\ is_number(rhs.literal)
                       THEN Emitted(emit_with_number(l.prog, "ADD_CONST", rhs.literal.n), l.err)
                       ELSE EmitError(l.prog, "Unsupported binary op")))
              ELSE EmitError(prog, "Unsupported binary op")
         [] node.type = "FUNCTION_CALL" ->
              Emitted(emit_with_string(prog, "BUILTIN_CALL", node.name), err)
         [] OTHER -> EmitError(prog, "Unsupported AST node type")

\* A compile that emits into the target Program without clearing it.
Compiler_compile_appending(ast, program, err) ==
  Bind(emit_node(ast, program, err), LAMBDA e :
    IF ~e.ok THEN e
    ELSE Bind(validate(e.prog, e.err), LAMBDA v :
           [ok |-> v.ok, prog |-> e.prog, err |-> v.err]))

\* Compiler::compile : [ok, prog, err]; the code and the pool of the target
\* Program are cleared first.
Compiler_compile(ast, program, err) ==
  Bind(emit_node(ast, [program EXCEPT !.code = <<>>, !.pool.strings = <<>>,
                                      !.pool.numbers = <<>>], err), LAMBDA e :
    IF ~e.ok THEN e
    ELSE Bind(validate(e.prog, e.err), LAMBDA v :
           [ok |-> v.ok, prog |-> e.prog, err |-> v.err]))


-----------------------------------------------------------------------------
(* Builtins: the registry and the standard builtin functions.  A builtin
   function fn(input, outputs, err) yields the set of its possible results
   [ok, outputs, err]: one result, except where the C++ library leaves the
   result open. *)

T_keys == <<"k", "e", "y", "s">>
T_values == <<"v", "a", "l", "u", "e", "s">>
T_type == <<"t", "y", "p", "e">>
T_length == <<"l", "e", "n", "g", "t", "h">>
T_empty == <<"e", "m", "p", "t", "y">>
T_reverse == <<"r", "e", "v", "e", "r", "s", "e">>
T_sort == <<"s", "o", "r", "t">>
T_to_entries == <<"t", "o", "_", "e", "n", "t", "r", "i", "e", "s">>
T_key == <<"k", "e", "y">>
T_value == <<"v", "a", "l", "u", "e">>

BuiltinOk(outputs, err) == [ok |-> TRUE, outputs |-> outputs, err |-> err]
BuiltinError(outputs, msg) == [ok |-> FALSE, outputs |-> outputs, err |-> msg]

\* The keys of a std::map in iteration order, each as a JvValue string.
RECURSIVE map_keys(_)
map_keys(o) == IF o = <<>> THEN <<>> ELSE <<JvString(Head(o)[1])>> \o map_keys(Tail(o))

\* The mapped values of a std::map in iteration order.
RECURSIVE map_values(_)
map_values(o) == IF o = <<>> THEN <<>> ELSE <<Head(o)[2]>> \o map_values(Tail(o))

\* The numbers 0 .. n-1 as JvValues.
RECURSIVE index_numbers(_)
index_numbers(n) == IF n = 0 THEN <<>> ELSE Append(index_numbers(n - 1), JvNumber(n - 1))

RECURSIVE Reverse(_)
Reverse(q) == IF q = <<>> THEN <<>> ELSE Append(Reverse(Tail(q)), Head(q))

\* A keys that lists the keys of an object from the last to the first.
keys_builtin_descending(input, outputs, err) ==
  IF input = NullPtr THEN {BuiltinError(outputs, "keys: null input")}
  ELSE IF is_object(input)
  THEN {BuiltinOk(Append(outputs, JvArray(Reverse(map_keys(input.o)))), err)}
  ELSE IF is_array(input)
  THEN {BuiltinOk(Append(outputs, JvArray(index_numbers(Len(input.a)))), err)}
  ELSE {BuiltinError(outputs, "keys: input must be object or array")}

\* builtins::keys_builtin
keys_builtin(input, outputs, err) ==
  IF input = NullPtr THEN {BuiltinError(outputs, "keys: null input")}
  ELSE IF is_object(input) THEN {BuiltinOk(Append(outputs, JvArray(map_keys(input.o))), err)}
  ELSE IF is_array(input)
  THEN {BuiltinOk(Append(outputs, JvArray(index_numbers(Len(input.a)))), err)}
  ELSE {BuiltinError(outputs, "keys: input must be object or array")}

\* builtins::values_builtin
values_builtin(input, outputs, err) ==
  IF input = NullPtr THEN {BuiltinError(outputs, "values: null input")}
  ELSE IF is_object(input) THEN {BuiltinOk(outputs \o map_values(input.o), err)}
  ELSE IF is_array(input) THEN {BuiltinOk(outputs \o input.a, err)}
  ELSE {BuiltinError(outputs, "values: input must be object or array")}

\* builtins::type_builtin
type_builtin(input, outputs, err) ==
  LET type_name == IF input = NullPtr \/ is_null(input) THEN <<"n", "u", "l", "l">>
                   ELSE IF is_bool(input) THEN <<"b", "o", "o", "l", "e", "a", "n">>
                   ELSE IF is_number(input) THEN <<"n", "u", "m", "b", "e", "r">>
                   ELSE IF is_string(input) THEN <<"s", "t", "r", "i", "n", "g">>
                   ELSE IF is_array(input) THEN <<"a", "r", "r", "a", "y">>
                   ELSE IF is_object(input) THEN <<"o", "b", "j", "e", "c", "t">>
                   ELSE <<"u", "n", "k", "n", "o", "w", "n">>
  IN {BuiltinOk(Append(outputs, JvString(type_name)), err)}

\* builtins::length_builtin
length_builtin(input, outputs, err) ==
  LET n == IF input = NullPtr THEN 0
           ELSE IF is_string(input) THEN Len(input.s)
           ELSE IF is_array(input) THEN Len(input.a)
           ELSE IF is_object(input) THEN Len(input.o)
           ELSE 0
  IN {BuiltinOk(Append(outputs, JvNumber(n)), err)}

\* builtins::empty_builtin
empty_builtin(input, outputs, err) == {BuiltinOk(outputs, err)}

\* builtins::reverse_builtin
reverse_builtin(input, outputs, err) ==
  IF input = NullPtr THEN {BuiltinOk(Append(outputs, JvNull), err)}
  ELSE IF is_string(input) THEN {BuiltinOk(Append(outputs, JvString(Reverse(input.s))), err)}
  ELSE IF is_array(input) THEN {BuiltinOk(Append(outputs, JvArray(Reverse(input.a))), err)}
  ELSE {BuiltinError(outputs, "reverse: input must be string or array")}

\* The type_order lambda of sort_builtin.
type_order(v) ==
  IF is_null(v) THEN 0
  ELSE IF is_bool(v) THEN 1
  ELSE IF is_number(v) THEN 2
  ELSE IF is_string(v) THEN 3
  ELSE IF is_array(v) THEN 4
  ELSE IF is_object(v) THEN 5
  ELSE 6

\* A comparator that orders by type only.
sort_less_by_type(a, b) == type_order(a) < type_order(b)

\* The comparator sort_builtin hands to std::sort.
sort_less(a, b) ==
  IF is_number(a) /\ is_number(b) THEN a.n < b.n
  ELSE IF is_string(a) /\ is_string(b) THEN StrLess(a.s, b.s)
  ELSE type_order(a) < type_order(b)

\* std::sort(elems, comp): some permutation of elems that is ordered under comp;
\* the order of elements that compare equivalent is unspecified.
std_sort(elems) ==
  { [k \in 1..Len(elems) |-> elems[p[k]]] :
      p \in { q \in Permutations(1..Len(elems)) :
                \A i, j \in 1..Len(elems) :
                   i < j => ~sort_less(elems[q[j]], elems[q[i]]) } }

\* builtins::sort_builtin
sort_builtin(input, outputs, err) ==
  IF input = NullPtr \/ ~is_array(input)
  THEN {BuiltinError(outputs, "sort: input must be array")}
  ELSE {BuiltinOk(Append(outputs, JvArray(sorted)), err) : sorted \in std_sort(input.a)}

\* The entries to_entries_builtin builds from a std::map.
RECURSIVE map_entries(_)
map_entries(o) ==
  IF o = <<>> THEN <<>>
  ELSE <<object_set(object_set(JvObject(<<>>), T_key, JvString(Head(o)[1])),
                    T_value, Head(o)[2])>>
       \o map_entries(Tail(o))

\* builtins::to_entries_builtin
to_entries_builtin(input, outputs, err) ==
  IF input = NullPtr \/ ~is_object(input)
  THEN {BuiltinError(outputs, "to_entries: input must be object")}
  ELSE {BuiltinOk(Append(outputs, JvArray(map_entries(input.o))), err)}

\* Functions a caller hands to register_builtin: one that returns false and
\* touches neither outputs nor err, one that pushes the string "custom" and
\* returns true.
CustomFunctions == {"custom_fail", "custom_tag"}
custom_function(fn, input, outputs, err) ==
  IF fn = "custom_fail" THEN {BuiltinError(outputs, err)}
  ELSE {BuiltinOk(Append(outputs, JvString(<<"c", "u", "s", "t", "o", "m">>)), err)}

\* A BuiltinFunc called: fn names the function the std::function holds.
apply_builtin(fn, input, outputs, err) ==
  CASE fn = "keys_builtin" -> keys_builtin(input, outputs, err)
    [] fn = "values_builtin" -> values_builtin(input, outputs, err)
    [] fn = "type_builtin" -> type_builtin(input, outputs, err)
    [] fn = "length_builtin" -> length_builtin(input, outputs, err)
    [] fn = "empty_builtin" -> empty_builtin(input, outputs, err)
    [] fn = "reverse_builtin" -> reverse_builtin(input, outputs, err)
    [] fn = "sort_builtin" -> sort_builtin(input, outputs, err)
    [] fn = "to_entries_builtin" -> to_entries_builtin(input, outputs, err)
    [] OTHER -> custom_function(fn, input, outputs, err)

\* The registrations of Builtins::init_builtins, in order.
StandardBuiltins ==
  << <<T_keys, "keys_builtin">>, <<T_values, "values_builtin">>,
     <<T_type, "type_builtin">>, <<T_length, "length_builtin">>,
     <<T_empty, "empty_builtin">>, <<T_reverse, "reverse_builtin">>,
     <<T_sort, "sort_builtin">>, <<T_to_entries, "to_entries_builtin">> >>

\* The static state of Builtins: reg = [registry_, initialized_].
RECURSIVE init_builtins(_)
RECURSIVE register_builtin(_, _, _)
RECURSIVE register_all(_, _)

\* Builtins::init_builtins
init_builtins(reg) ==
  IF reg.initialized_ THEN reg
  ELSE register_all([reg EXCEPT !.initialized_ = TRUE], StandardBuiltins)

\* A list of register_builtin calls that leaves out the last one.
register_all_short(reg, list) ==
  IF Len(list) <= 1 THEN reg
  ELSE register_all(register_builtin(reg, Head(list)[1], Head(list)[2]), Tail(list))

\* The register_builtin calls of init_builtins, one after the other.
register_all(reg, list) ==
  IF list = <<>> THEN reg
  ELSE register_all(register_builtin(reg, Head(list)[1], Head(list)[2]), Tail(list))

\* A register_builtin that stores the function without initializing first.
register_builtin_uninitialized(reg, name, fn) ==
  [reg EXCEPT !.registry_ = map_set(reg.registry_, name, fn)]

\* Builtins::register_builtin
register_builtin(reg, name, fn) ==
  Bind(init_builtins(reg), LAMBDA r :
    [r EXCEPT !.registry_ = map_set(r.registry_, name, fn)])

\* Builtins::has_builtin : [reg, result]
has_builtin(reg, name) ==
  Bind(init_builtins(reg), LAMBDA r :
    [reg |-> r, result |-> map_has(r.registry_, name)])

\* Builtins::get_builtin : [reg, fn]; fn is "nullptr" for an empty std::function
get_builtin(reg, name) ==
  Bind(init_builtins(reg), LAMBDA r :
    [reg |-> r,
     fn |-> IF map_has(r.registry_, name) THEN map_get(r.registry_, name) ELSE "nullptr"])

\* Builtins::call_builtin : the set of its possible results [ok, outputs, err, reg]
call_builtin(reg, name, input, outputs, err) ==
  Bind(get_builtin(init_builtins(reg), name), LAMBDA g :
    IF g.fn = "nullptr"
    THEN {[ok |-> FALSE, outputs |-> outputs,
           err |-> "Unknown builtin: " \o Text2Str(name), reg |-> g.reg]}
    ELSE {[ok |-> r.ok, outputs |-> r.outputs, err |-> r.err, reg |-> g.reg] :
            r \in apply_builtin(g.fn, input, outputs, err)})

-----------------------------------------------------------------------------
(* Executor.  An execution state is
   [i, current, outputs, err, reg, status, last]: the loop index of exec_range,
   the register, the outputs vector, the caller's err, the Builtins state, the
   status ("running", "returned_true", "returned_false") and the instruction
   the last step executed (NoInstruction before the first). *)

NoInstruction == Instruction("none", -1, -1)

\* static_cast<size_t>(idx) for the double idx: the value itself when it is
\* representable; otherwise the conversion is undefined and the build may
\* yield any size_t, of which array_index tells apart only those below `size`
\* from the rest (here: `size` itself).
cast_size_t(idx, size) == IF idx >= 0 THEN {idx} ELSE 0..size

Continue(xs, ins, current, outputs) ==
  [xs EXCEPT !.i = xs.i + 1, !.current = current, !.outputs = outputs, !.last = ins]

Return(xs, ins, ret, outputs, err) ==
  [xs EXCEPT !.status = IF ret THEN "returned_true" ELSE "returned_false",
             !.outputs = outputs, !.err = err, !.last = ins]

\* cur ? cur : JvValue::null()
or_null(cur) == IF cur # NullPtr THEN cur ELSE JvNull

\* case OpCode::LOAD_IDENTITY
exec_load_identity(prog, xs, ins) == {Continue(xs, ins, xs.current, xs.outputs)}

\* A GET_FIELD that leaves a non-object current value as it is.
exec_get_field_keeping(prog, xs, ins) ==
  IF xs.current = NullPtr \/ ~is_object(xs.current)
  THEN {Continue(xs, ins, xs.current, xs.outputs)}
  ELSE {Continue(xs, ins, object_get(xs.current, prog.pool.strings[ins.a + 1]), xs.outputs)}

\* case OpCode::GET_FIELD
exec_get_field(prog, xs, ins) ==
  IF xs.current = NullPtr \/ ~is_object(xs.current)
  THEN {Continue(xs, ins, JvNull, xs.outputs)}
  ELSE {Continue(xs, ins, object_get(xs.current, prog.pool.strings[ins.a + 1]), xs.outputs)}

\* case OpCode::GET_INDEX_STR
exec_get_index_str(prog, xs, ins) ==
  IF xs.current = NullPtr \/ ~is_object(xs.current)
  THEN {Continue(xs, ins, JvNull, xs.outputs)}
  ELSE {Continue(xs, ins, object_get(xs.current, prog.pool.strings[ins.a + 1]), xs.outputs)}

\* case OpCode::GET_INDEX_NUM
exec_get_index_num(prog, xs, ins) ==
  IF xs.current = NullPtr \/ ~is_array(xs.current)
  THEN {Continue(xs, ins, JvNull, xs.outputs)}
  ELSE {Continue(xs, ins, array_index(xs.current, i), xs.outputs) :
          i \in cast_size_t(prog.pool.numbers[ins.a + 1], Len(xs.current.a))}

\* An ITERATE that breaks out of the switch instead of returning.
exec_iterate_breaking(prog, xs, ins) ==
  IF xs.current = NullPtr \/ ~is_array(xs.current)
  THEN {Continue(xs, ins, xs.current, Append(xs.outputs, or_null(xs.current)))}
  ELSE {Continue(xs, ins, xs.current, xs.outputs \o xs.current.a)}

\* case OpCode::ITERATE
exec_iterate(prog, xs, ins) ==
  IF xs.current = NullPtr \/ ~is_array(xs.current)
  THEN {Return(xs, ins, TRUE, Append(xs.outputs, or_null(xs.current)), xs.err)}
  ELSE {Return(xs, ins, TRUE, xs.outputs \o xs.current.a, xs.err)}

\* case OpCode::ADD_CONST
exec_add_const(prog, xs, ins) ==
  IF xs.current = NullPtr \/ ~is_number(xs.current)
  THEN {Continue(xs, ins, JvNull, xs.outputs)}
  ELSE {Continue(xs, ins, JvNumber(xs.current.n + prog.pool.numbers[ins.a + 1]), xs.outputs)}

\* case OpCode::LENGTH
exec_length(prog, xs, ins) ==
  {Continue(xs, ins,
            JvNumber(IF xs.current = NullPtr THEN 0
                     ELSE IF is_string(xs.current) THEN Len(xs.current.s)
                     ELSE IF is_array(xs.current) THEN Len(xs.current.a)
                     ELSE IF is_object(xs.current) THEN Len(xs.current.o)
                     ELSE 0),
            xs.outputs)}

\* A BUILTIN_CALL that appends every builtin output and keeps current.
exec_builtin_call_appending(prog, xs, ins) ==
  { IF ~r.ok
    THEN [Return(xs, ins, FALSE, xs.outputs, r.err) EXCEPT !.reg = r.reg]
    ELSE [Continue(xs, ins, xs.current, xs.outputs \o r.outputs)
            EXCEPT !.reg = r.reg, !.err = r.err]
    : r \in call_builtin(xs.reg, prog.pool.strings[ins.a + 1], xs.current, <<>>, xs.err) }

\* case OpCode::BUILTIN_CALL
exec_builtin_call(prog, xs, ins) ==
  { IF ~r.ok
    THEN [Return(xs, ins, FALSE, xs.outputs, r.err) EXCEPT !.reg = r.reg]
    ELSE IF r.outputs # <<>>
    THEN [Continue(xs, ins, r.outputs[1], xs.outputs \o Tail(r.outputs))
            EXCEPT !.reg = r.reg, !.err = r.err]
    ELSE [Continue(xs, ins, JvNull, xs.outputs) EXCEPT !.reg = r.reg, !.err = r.err]
    : r \in call_builtin(xs.reg, prog.pool.strings[ins.a + 1], xs.current, <<>>, xs.err) }

\* default: (OpCode::NOP has no case of its own)
exec_default(prog, xs, ins) == {Return(xs, ins, FALSE, xs.outputs, "Unknown opcode")}

\* The switch of Executor::exec_range on the instruction ins.
exec_switch(prog, xs, ins) ==
  CASE ins.op = "LOAD_IDENTITY" -> exec_load_identity(prog, xs, ins)
    [] ins.op = "GET_FIELD" -> exec_get_field(prog, xs, ins)
    [] ins.op = "GET_INDEX_STR" -> exec_get_index_str(prog, xs, ins)
    [] ins.op = "GET_INDEX_NUM" -> exec_get_index_num(prog, xs, ins)
    [] ins.op = "ITERATE" -> exec_iterate(prog, xs, ins)
    [] ins.op = "ADD_CONST" -> exec_add_const(prog, xs, ins)
    [] ins.op = "LENGTH" -> exec_length(prog, xs, ins)
    [] ins.op = "BUILTIN_CALL" -> exec_builtin_call(prog, xs, ins)
    [] OTHER -> exec_default(prog, xs, ins)

\* One iteration of the for loop of Executor::exec_range, at instruction
\* prog.code[xs.i]: the set of states it can leave.
exec_instruction(prog, xs) == exec_switch(prog, xs, prog.code[xs.i + 1])

\* The end of the for loop of Executor::exec_range: push current, return true.
exec_finish(xs) ==
  [xs EXCEPT !.status = "returned_true",
             !.outputs = Append(xs.outputs, or_null(xs.current))]

\* Executor::exec_range from state xs to the end of the code: the set of final states.
RECURSIVE exec_range(_, _)
exec_range(prog, xs) ==
  IF xs.status # "running" THEN {xs}
  ELSE IF xs.i >= Len(prog.code) THEN {exec_finish(xs)}
  ELSE UNION {exec_range(prog, n) : n \in exec_instruction(prog, xs)}

\* The state in which Executor::execute enters exec_range: outputs cleared.
exec_start(input, err, reg) ==
  [i |-> 0, current |-> input, outputs |-> <<>>, err |-> err, reg |-> reg,
   status |-> "running", last |-> NoInstruction]

\* Executor::execute : the set of final states
execute(prog, input, err, reg) == exec_range(prog, exec_start(input, err, reg))


-----------------------------------------------------------------------------
(* The filters and the JSON inputs of the calls. *)

F_values == <<"v", "a", "l", "u", "e", "s">>
F_empty == <<"e", "m", "p", "t", "y">>
F_identity == <<".">>
F_a == <<".", "a">>
F_b == <<".", "b">>
F_first == <<".", "[", "0", "]">>
F_second == <<".", "[", "1", "]">>
F_path == <<".", "a", "[", "0", "]", ".", "b">>
F_huge_index == <<".", "[", "1", "e", "9", "9", "9", "]">>
F_iterate == <<".", "[", "]">>
F_unclosed == <<".", "[", "0">>
F_keys_pipe == <<".", "a", " ", "|", " ", "k", "e", "y", "s">>
F_unknown == <<"n", "o", "p", "e">>
F_call_args == <<"k", "e", "y", "s", "(", ".", ")">>
F_index_str == <<".", "[", "\"", "a", "\"", "]">>
F_add == <<".", "b", " ", "+", " ", "1">>
F_values_keys == <<"v", "a", "l", "u", "e", "s", " ", "|", " ", "k", "e", "y", "s">>

Filters ==
  {<<>>, F_values, F_empty, F_identity, F_a, F_b, F_first, F_second, F_path,
   F_huge_index, F_iterate, F_unclosed, F_keys_pipe, F_unknown, F_call_args,
   F_index_str, F_add, F_values_keys}

\* The size bound of the generated arrays and objects.
MaxLen == 2

Scalars == {JvNull, JvBoolean(TRUE), JvNumber(1), JvNumber(2), JvString(<<"b">>)}
Elements == {JvNumber(1), JvString(<<"b">>)}

SeqsUpTo(S, n) == UNION {[1..k -> S] : k \in 0..n}

Arrays == {JvArray(a) : a \in SeqsUpTo(Elements, MaxLen)}

\* The objects with at most MaxLen of the keys a, b, as sorted maps.
KeyNames == <<"a", "b">>
RECURSIVE MapsOver(_, _)
MapsOver(k, n) ==
  IF k > Len(KeyNames) \/ n = 0 THEN {<<>>}
  ELSE MapsOver(k + 1, n)
       \cup {<<<< <<KeyNames[k]>>, v >>>> \o rest : v \in Elements, rest \in MapsOver(k + 1, n - 1)}
Objects == {JvObject(o) : o \in MapsOver(1, MaxLen)}

Nested ==
  {JvObject(<< << <<"a">>, JvArray(<<JvObject(<< << <<"b">>, JvNumber(1) >> >>), JvNumber(2)>>) >> >>),
   JvArray(<<JvArray(<<JvNumber(2), JvNumber(1)>>), JvNumber(1)>>)}

Values == Scalars \cup Arrays \cup Objects \cup Nested

\* Texts the DOM parser rejects.
InvalidTexts == {<<>>, <<"{">>, <<"[", "1", ",", "]">>, <<"n", "o", "p", "e">>, <<"1", " ", "2">>}

JsonTexts == {to_string(v) : v \in Values} \cup InvalidTexts

-----------------------------------------------------------------------------
(* Engine.  eng = [ast_, program_] is the state of one Engine object. *)

\* A compile that keeps the Program the Engine already holds.
Engine_compile_keeping(eng, filter, err) ==
  IF filter = <<>>
  THEN [ret |-> FALSE, eng |-> eng, err |-> "jq filter cannot be empty"]
  ELSE IF eng.program_ # NullProgram
  THEN [ret |-> TRUE, eng |-> eng, err |-> err]
  ELSE Bind(parse(tokenize(filter)), LAMBDA parsed :
    IF parsed.node = NullAst
    THEN [ret |-> FALSE, eng |-> [eng EXCEPT !.ast_ = parsed.node],
          err |-> "Failed to parse jq filter"]
    ELSE Bind(Compiler_compile(parsed.node, EmptyProgram, err), LAMBDA cc :
      IF ~cc.ok
      THEN [ret |-> FALSE, eng |-> [eng EXCEPT !.ast_ = parsed.node], err |-> cc.err]
      ELSE [ret |-> TRUE, eng |-> [ast_ |-> parsed.node, program_ |-> cc.prog],
            err |-> cc.err]))

\* Engine::compile : [ret, eng, err].  Lexer::tokenize does not throw and
\* Parser::parse catches what parsing throws, so the catch block is not entered.
Engine_compile(eng, filter, err) ==
  IF filter = <<>>
  THEN [ret |-> FALSE, eng |-> eng, err |-> "jq filter cannot be empty"]
  ELSE Bind(parse(tokenize(filter)), LAMBDA parsed :
    IF parsed.node = NullAst
    THEN [ret |-> FALSE, eng |-> [eng EXCEPT !.ast_ = parsed.node],
          err |-> "Failed to parse jq filter"]
    ELSE Bind(Compiler_compile(parsed.node, EmptyProgram, err), LAMBDA cc :
      IF ~cc.ok
      THEN [ret |-> FALSE, eng |-> [eng EXCEPT !.ast_ = parsed.node], err |-> cc.err]
      ELSE [ret |-> TRUE, eng |-> [ast_ |-> parsed.node, program_ |-> cc.prog],
            err |-> cc.err]))

\* out ? out->to_string() : "null", for every element of the executor's outputs
outputs_to_strings(outputs) ==
  [k \in 1..Len(outputs) |->
     IF outputs[k] # NullPtr THEN to_string(outputs[k]) ELSE <<"n", "u", "l", "l">>]

\* What a call of run_streaming leaves behind: the return value, the Engine,
\* the Builtins state, the caller's json_outputs and err, and, for the
\* properties, whether Executor::execute was called, on which value, and the
\* values it produced.
Streamed(ret, eng, reg, json_outputs, err, executed, jv, outputs) ==
  [ret |-> ret, eng |-> eng, reg |-> reg, json_outputs |-> json_outputs, err |-> err,
   executed |-> executed, jv |-> jv, outputs |-> outputs]

\* A run_streaming that lets the executor write into the caller's vector, so
\* that the outputs collected before a failure stay in it.
Engine_run_streaming_direct(eng, reg, filter, json_in, json_outputs, err) ==
  Bind(Engine_compile(eng, filter, err), LAMBDA c :
    IF ~c.ret
    THEN {Streamed(FALSE, c.eng, reg, json_outputs, c.err, FALSE, NullPtr, <<>>)}
    ELSE Bind(from_string(json_in), LAMBDA f :
      IF f.v = NullPtr
      THEN {Streamed(FALSE, c.eng, reg, json_outputs, "Invalid JSON input",
                     FALSE, NullPtr, <<>>)}
      ELSE { Streamed(x.status # "returned_false", c.eng, x.reg,
                      outputs_to_strings(x.outputs), x.err, TRUE, f.v, x.outputs)
             : x \in execute(c.eng.program_, f.v,
                             IF f.err_set THEN f.err ELSE c.err, reg) }))

\* A run_streaming that, when the filter does not compile, goes on with the
\* Program the Engine holds from an earlier call, if any.
Engine_run_streaming_stale(eng, reg, filter, json_in, json_outputs, err) ==
  Bind(Engine_compile(eng, filter, err), LAMBDA c :
    IF ~c.ret /\ c.eng.program_ = NullProgram
    THEN {Streamed(FALSE, c.eng, reg, json_outputs, c.err, FALSE, NullPtr, <<>>)}
    ELSE Bind(from_string(json_in), LAMBDA f :
      IF f.v = NullPtr
      THEN {Streamed(FALSE, c.eng, reg, json_outputs, "Invalid JSON input",
                     FALSE, NullPtr, <<>>)}
      ELSE { IF x.status = "returned_false"
             THEN Streamed(FALSE, c.eng, x.reg, json_outputs, x.err, TRUE, f.v, x.outputs)
             ELSE Streamed(TRUE, c.eng, x.reg, outputs_to_strings(x.outputs), x.err,
                           TRUE, f.v, x.outputs)
             : x \in execute(c.eng.program_, f.v,
                             IF f.err_set THEN f.err ELSE c.err, reg) }))

\* Engine::run_streaming : the set of its possible results
Engine_run_streaming(eng, reg, filter, json_in, json_outputs, err) ==
  Bind(Engine_compile(eng, filter, err), LAMBDA c :
    IF ~c.ret
    THEN {Streamed(FALSE, c.eng, reg, json_outputs, c.err, FALSE, NullPtr, <<>>)}
    ELSE Bind(from_string(json_in), LAMBDA f :
      IF f.v = NullPtr
      THEN {Streamed(FALSE, c.eng, reg, json_outputs, "Invalid JSON input",
                     FALSE, NullPtr, <<>>)}
      ELSE { IF x.status = "returned_false"
             THEN Streamed(FALSE, c.eng, x.reg, json_outputs, x.err, TRUE, f.v, x.outputs)
             ELSE Streamed(TRUE, c.eng, x.reg, outputs_to_strings(x.outputs), x.err,
                           TRUE, f.v, x.outputs)
             : x \in execute(c.eng.program_, f.v,
                             IF f.err_set THEN f.err ELSE c.err, reg) }))

\* A run that hands back the last output instead of the first.
Engine_run_last(eng, reg, filter, json_in, json_out, err) ==
  { [ret |-> r.ret, eng |-> r.eng, reg |-> r.reg, err |-> r.err, streaming |-> r,
     json_out |-> IF ~r.ret THEN json_out
                  ELSE IF r.json_outputs = <<>> THEN <<"n", "u", "l", "l">>
                  ELSE r.json_outputs[Len(r.json_outputs)]]
    : r \in Engine_run_streaming(eng, reg, filter, json_in, <<>>, err) }

\* Engine::run : the set of its possible results; streaming is the result of
\* the run_streaming call it makes on its local outputs vector.
Engine_run(eng, reg, filter, json_in, json_out, err) ==
  { [ret |-> r.ret, eng |-> r.eng, reg |-> r.reg, err |-> r.err, streaming |-> r,
     json_out |-> IF ~r.ret THEN json_out
                  ELSE IF r.json_outputs = <<>> THEN <<"n", "u", "l", "l">>
                  ELSE r.json_outputs[1]]
    : r \in Engine_run_streaming(eng, reg, filter, json_in, <<>>, err) }

\* Engine::register_builtin
Engine_register_builtin(reg, name, fn) == register_builtin(reg, name, fn)

-----------------------------------------------------------------------------
(* The Engine under a caller: one Engine object, the process-wide Builtins
   state, and a caller that makes one call after the other, each with
   variables of its own (json_outputs, json_out, err) that hold earlier
   contents.  `call` describes the call that has just returned. *)

NoCall ==
  [op |-> "none", filter |-> <<>>, json_in |-> <<>>, ret |-> FALSE,
   executed |-> FALSE, jv |-> NullPtr, outputs |-> <<>>,
   streaming |-> [ret |-> FALSE, json_outputs |-> <<>>]]

\* What the caller's variables hold when it makes a call.
EarlierOutputs == <<<<"\"", "e", "a", "r", "l", "i", "e", "r", "\"">>>>
EarlierOut == <<"\"", "e", "a", "r", "l", "i", "e", "r", "\"">>

Init ==
  /\ ast_ = NullAst
  /\ program_ = NullProgram
  /\ registry_ = <<>>
  /\ initialized_ = FALSE
  /\ call = NoCall
  /\ c_json_outputs = EarlierOutputs
  /\ c_json_out = EarlierOut
  /\ c_err = ""
  /\ x_prog = EmptyProgram
  /\ x_pc = 0
  /\ x_current = NullPtr
  /\ x_outputs = <<>>
  /\ x_status = "none"
  /\ x_last = NoInstruction

\* engine.compile(filter, err)
Compile(filter) ==
  /\ call = NoCall
  /\ \E r \in {Engine_compile([ast_ |-> ast_, program_ |-> program_], filter, c_err)} :
        /\ ast_' = r.eng.ast_
        /\ program_' = r.eng.program_
        /\ c_err' = r.err
        /\ call' = [NoCall EXCEPT !.op = "compile", !.filter = filter, !.ret = r.ret]
  /\ UNCHANGED <<registry_, initialized_, c_json_outputs, c_json_out, execVars>>

\* engine.run_streaming(filter, json_in, json_outputs, err)
RunStreaming(filter, json_in) ==
  /\ call = NoCall
  /\ \E r \in Engine_run_streaming([ast_ |-> ast_, program_ |-> program_],
                                   [registry_ |-> registry_, initialized_ |-> initialized_],
                                   filter, json_in, c_json_outputs, c_err) :
        /\ ast_' = r.eng.ast_
        /\ program_' = r.eng.program_
        /\ registry_' = r.reg.registry_
        /\ initialized_' = r.reg.initialized_
        /\ c_json_outputs' = r.json_outputs
        /\ c_err' = r.err
        /\ call' = [NoCall EXCEPT !.op = "run_streaming", !.filter = filter,
                                  !.json_in = json_in, !.ret = r.ret,
                                  !.executed = r.executed, !.jv = r.jv,
                                  !.outputs = r.outputs]
  /\ UNCHANGED <<c_json_out, execVars>>

\* engine.run(filter, json_in, json_out, err)
Run(filter, json_in) ==
  /\ call = NoCall
  /\ \E r \in Engine_run([ast_ |-> ast_, program_ |-> program_],
                         [registry_ |-> registry_, initialized_ |-> initialized_],
                         filter, json_in, c_json_out, c_err) :
        /\ ast_' = r.eng.ast_
        /\ program_' = r.eng.program_
        /\ registry_' = r.reg.registry_
        /\ initialized_' = r.reg.initialized_
        /\ c_json_out' = r.json_out
        /\ c_err' = r.err
        /\ call' = [NoCall EXCEPT !.op = "run", !.filter = filter,
                                  !.json_in = json_in, !.ret = r.ret,
                                  !.executed = r.streaming.executed,
                                  !.jv = r.streaming.jv,
                                  !.outputs = r.streaming.outputs,
                                  !.streaming = [ret |-> r.streaming.ret,
                                                 json_outputs |-> r.streaming.json_outputs]]
  /\ UNCHANGED <<c_json_outputs, execVars>>

\* The caller has looked at the results and turns to its next call.
NextCall ==
  /\ call # NoCall
  /\ call' = NoCall
  /\ c_json_outputs' = EarlierOutputs
  /\ c_json_out' = EarlierOut
  /\ c_err' = ""
  /\ UNCHANGED <<ast_, program_, registry_, initialized_, execVars>>

Next ==
  \/ \E filter \in Filters : Compile(filter)
  \/ \E filter \in Filters, json_in \in JsonTexts : RunStreaming(filter, json_in)
  \/ \E filter \in Filters, json_in \in JsonTexts : Run(filter, json_in)
  \/ NextCall

Spec == Init /\ [][Next]_vars

-----------------------------------------------------------------------------
(* The Executor, instruction by instruction: one execution of a Program on an
   input value.  x_pc is the loop index of exec_range, x_current the register,
   x_outputs the outputs vector, x_last the instruction executed last. *)

\* The length bound of the executed programs.
MaxCode == 2

ExecPool ==
  [strings |-> <<<<"a">>, T_values, T_empty, <<"n", "o", "p", "e">>, T_length>>,
   numbers |-> <<0, 1, -1>>]

Instructions ==
  {Instruction("NOP", -1, -1), Instruction("LOAD_IDENTITY", -1, -1),
   Instruction("GET_FIELD", 0, -1), Instruction("GET_INDEX_STR", 0, -1),
   Instruction("GET_INDEX_NUM", 1, -1), Instruction("GET_INDEX_NUM", 2, -1),
   Instruction("ITERATE", -1, -1),
   Instruction("ADD_CONST", 1, -1), Instruction("LENGTH", -1, -1),
   Instruction("BUILTIN_CALL", 1, -1), Instruction("BUILTIN_CALL", 2, -1),
   Instruction("BUILTIN_CALL", 3, -1), Instruction("BUILTIN_CALL", 4, -1)}

Programs == {[code |-> c, pool |-> ExecPool] : c \in SeqsUpTo(Instructions, MaxCode)}

ExecInputs ==
  {NullPtr, JvNull, JvNumber(1), JvString(<<"a", "b">>), JvArray(<<>>),
   JvArray(<<JvNumber(1), JvString(<<"b">>), JvNumber(2)>>),
   JvObject(<< <<<<"a">>, JvArray(<<JvNumber(1), JvNumber(2)>>)>>, <<<<"b">>, JvNumber(2)>> >>)}

\* executor.execute(prog, input, outputs, err) has been entered.
InitExec ==
  /\ ast_ = NullAst
  /\ program_ = NullProgram
  /\ registry_ = <<>>
  /\ initialized_ = FALSE
  /\ call = NoCall
  /\ c_json_outputs = <<>>
  /\ c_json_out = <<>>
  /\ c_err = ""
  /\ x_prog \in Programs
  /\ x_current \in ExecInputs
  /\ x_pc = 0
  /\ x_outputs = <<>>
  /\ x_status = "running"
  /\ x_last = NoInstruction

XState ==
  [i |-> x_pc, current |-> x_current, outputs |-> x_outputs, err |-> c_err,
   reg |-> [registry_ |-> registry_, initialized_ |-> initialized_],
   status |-> x_status, last |-> x_last]

XBecomes(xs) ==
  /\ x_pc' = xs.i
  /\ x_current' = xs.current
  /\ x_outputs' = xs.outputs
  /\ c_err' = xs.err
  /\ registry_' = xs.reg.registry_
  /\ initialized_' = xs.reg.initialized_
  /\ x_status' = xs.status
  /\ x_last' = xs.last
  /\ UNCHANGED <<ast_, program_, call, c_json_outputs, c_json_out, x_prog>>

AtInstruction == x_status = "running" /\ x_pc < Len(x_prog.code)
Opcode == x_prog.code[x_pc + 1].op

ExecutedOpcodes ==
  {"LOAD_IDENTITY", "GET_FIELD", "GET_INDEX_STR", "GET_INDEX_NUM", "ITERATE",
   "ADD_CONST", "LENGTH", "BUILTIN_CALL"}

ExecLoadIdentity ==
  AtInstruction /\ Opcode = "LOAD_IDENTITY" /\ \E n \in exec_instruction(x_prog, XState) : XBecomes(n)
ExecGetField ==
  AtInstruction /\ Opcode = "GET_FIELD" /\ \E n \in exec_instruction(x_prog, XState) : XBecomes(n)
ExecGetIndexStr ==
  AtInstruction /\ Opcode = "GET_INDEX_STR" /\ \E n \in exec_instruction(x_prog, XState) : XBecomes(n)
ExecGetIndexNum ==
  AtInstruction /\ Opcode = "GET_INDEX_NUM" /\ \E n \in exec_instruction(x_prog, XState) : XBecomes(n)
ExecIterate ==
  AtInstruction /\ Opcode = "ITERATE" /\ \E n \in exec_instruction(x_prog, XState) : XBecomes(n)
ExecAddConst ==
  AtInstruction /\ Opcode = "ADD_CONST" /\ \E n \in exec_instruction(x_prog, XState) : XBecomes(n)
ExecLength ==
  AtInstruction /\ Opcode = "LENGTH" /\ \E n \in exec_instruction(x_prog, XState) : XBecomes(n)
ExecBuiltinCall ==
  AtInstruction /\ Opcode = "BUILTIN_CALL" /\ \E n \in exec_instruction(x_prog, XState) : XBecomes(n)
ExecDefault ==
  AtInstruction /\ Opcode \notin ExecutedOpcodes /\ \E n \in exec_instruction(x_prog, XState) : XBecomes(n)

\* The loop of exec_range has run to the end of the code.
ExecFinish ==
  /\ x_status = "running"
  /\ x_pc >= Len(x_prog.code)
  /\ XBecomes(exec_finish(XState))

NextExec ==
  \/ ExecLoadIdentity
  \/ ExecGetField
  \/ ExecGetIndexStr
  \/ ExecGetIndexNum
  \/ ExecIterate
  \/ ExecAddConst
  \/ ExecLength
  \/ ExecBuiltinCall
  \/ ExecDefault
  \/ ExecFinish

SpecExec == InitExec /\ [][NextExec]_vars

-----------------------------------------------------------------------------
(* The builtin registry and the filters that use it: a caller registers
   builtins, looks them up, calls them on values, and runs filters that name
   them with an Engine of its own.  call records the call made last. *)

\* The names the caller registers functions under: a standard one and a new one.
RegisteredNames == {T_keys, <<"n", "o", "p", "e">>}

\* The names the caller looks up and calls, which are also the filters it runs.
BuiltinNames ==
  {T_keys, T_values, T_type, T_length, T_empty, T_reverse, T_sort, T_to_entries,
   <<"n", "o", "p", "e">>}

\* Arrays that sort has to reorder.
SortArrays ==
  {JvArray(<<JvNumber(2), JvNumber(1)>>),
   JvArray(<<JvString(<<"b">>), JvString(<<"a", "b">>), JvString(<<"a">>)>>),
   JvArray(<<JvObject(<<>>), JvString(<<"b">>), JvBoolean(TRUE), JvNull>>),
   JvArray(<<JvArray(<<>>), JvNumber(2), JvBoolean(FALSE), JvNumber(1)>>),
   JvArray(<<JvBoolean(TRUE), JvBoolean(FALSE)>>)}

\* The values the caller calls builtins on.
BuiltinInputs == Values \cup SortArrays \cup {NullPtr}

\* The JSON texts the caller runs filters on.
\* {"b":1,"a":2,"b":3}: keys out of order, one of them twice.
UnsortedObjectText ==
  <<"{", "\"", "b", "\"", ":", "1", ",", "\"", "a", "\"", ":", "2", ",",
    "\"", "b", "\"", ":", "3", "}">>

BuiltinTexts ==
  JsonTexts \cup {to_string(v) : v \in SortArrays} \cup {UnsortedObjectText}

NoBuiltinCall ==
  [op |-> "none", name |-> <<>>, fn |-> "nullptr", input |-> NullPtr, json_in |-> <<>>,
   ret |-> FALSE, outputs |-> <<>>, executed |-> FALSE]

InitBuiltins ==
  /\ ast_ = NullAst
  /\ program_ = NullProgram
  /\ registry_ = <<>>
  /\ initialized_ = FALSE
  /\ call = NoBuiltinCall
  /\ c_json_outputs = EarlierOutputs
  /\ c_json_out = EarlierOut
  /\ c_err = ""
  /\ x_prog = EmptyProgram
  /\ x_pc = 0
  /\ x_current = NullPtr
  /\ x_outputs = <<>>
  /\ x_status = "none"
  /\ x_last = NoInstruction

RegistryBecomes(reg) ==
  /\ registry_' = reg.registry_
  /\ initialized_' = reg.initialized_

\* engine.register_builtin(name, fn)
RegisterBuiltin(name, fn) ==
  /\ call = NoBuiltinCall
  /\ RegistryBecomes(Engine_register_builtin(
        [registry_ |-> registry_, initialized_ |-> initialized_], name, fn))
  /\ call' = [NoBuiltinCall EXCEPT !.op = "register_builtin", !.name = name, !.fn = fn]
  /\ UNCHANGED <<ast_, program_, c_json_outputs, c_json_out, c_err, execVars>>

\* Builtins::has_builtin(name)
HasBuiltin(name) ==
  /\ call = NoBuiltinCall
  /\ \E r \in {has_builtin([registry_ |-> registry_, initialized_ |-> initialized_], name)} :
        /\ RegistryBecomes(r.reg)
        /\ call' = [NoBuiltinCall EXCEPT !.op = "has_builtin", !.name = name, !.ret = r.result]
  /\ UNCHANGED <<ast_, program_, c_json_outputs, c_json_out, c_err, execVars>>

\* Builtins::get_builtin(name)
GetBuiltin(name) ==
  /\ call = NoBuiltinCall
  /\ \E r \in {get_builtin([registry_ |-> registry_, initialized_ |-> initialized_], name)} :
        /\ RegistryBecomes(r.reg)
        /\ call' = [NoBuiltinCall EXCEPT !.op = "get_builtin", !.name = name, !.fn = r.fn,
                                         !.ret = (r.fn # "nullptr")]
  /\ UNCHANGED <<ast_, program_, c_json_outputs, c_json_out, c_err, execVars>>

\* Builtins::call_builtin(name, input, outputs, err) with an empty outputs vector
CallBuiltin(name, input) ==
  /\ call = NoBuiltinCall
  /\ \E r \in call_builtin([registry_ |-> registry_, initialized_ |-> initialized_],
                           name, input, <<>>, c_err) :
        /\ RegistryBecomes(r.reg)
        /\ c_err' = r.err
        /\ call' = [NoBuiltinCall EXCEPT !.op = "call_builtin", !.name = name,
                                         !.input = input, !.ret = r.ok,
                                         !.outputs = r.outputs, !.executed = TRUE]
  /\ UNCHANGED <<ast_, program_, c_json_outputs, c_json_out, execVars>>

\* Engine engine; engine.run_streaming(name, json_in, json_outputs, err): the
\* filter is the bare name of a builtin.
RunFilter(name, json_in) ==
  /\ call = NoBuiltinCall
  /\ \E r \in Engine_run_streaming([ast_ |-> ast_, program_ |-> program_],
                                   [registry_ |-> registry_, initialized_ |-> initialized_],
                                   name, json_in, c_json_outputs, c_err) :
        /\ ast_' = r.eng.ast_
        /\ program_' = r.eng.program_
        /\ RegistryBecomes(r.reg)
        /\ c_json_outputs' = r.json_outputs
        /\ c_err' = r.err
        /\ call' = [NoBuiltinCall EXCEPT !.op = "run_streaming", !.name = name,
                                         !.json_in = json_in, !.input = r.jv,
                                         !.ret = r.ret, !.outputs = r.outputs,
                                         !.executed = r.executed]
  /\ UNCHANGED <<c_json_out, execVars>>

\* The caller has looked at the results; its Engine, if it made one, is gone.
Done ==
  /\ call # NoBuiltinCall
  /\ call' = NoBuiltinCall
  /\ ast_' = NullAst
  /\ program_' = NullProgram
  /\ c_json_outputs' = EarlierOutputs
  /\ c_json_out' = EarlierOut
  /\ c_err' = ""
  /\ UNCHANGED <<registry_, initialized_, execVars>>

NextBuiltins ==
  \/ \E name \in RegisteredNames, fn \in CustomFunctions : RegisterBuiltin(name, fn)
  \/ \E name \in BuiltinNames : HasBuiltin(name)
  \/ \E name \in BuiltinNames : GetBuiltin(name)
  \/ \E name \in BuiltinNames, input \in BuiltinInputs : CallBuiltin(name, input)
  \/ \E name \in BuiltinNames, json_in \in BuiltinTexts : RunFilter(name, json_in)
  \/ Done

SpecBuiltins == InitBuiltins /\ [][NextBuiltins]_vars

-----------------------------------------------------------------------------
(* Serialization (SpecRoundTrip): a caller holds an object value, serializes
   it, parses the text and serializes the parsed value again. *)

\* The characters of keys and strings: a letter, the quote, the backslash, LF.
RoundTripChars == {"a", "\"", "\\", "\n"}
RoundTripStrings == SeqsUpTo(RoundTripChars, MaxLen)

\* The objects the caller holds: those of the Engine calls, the objects with
\* one string member, and the objects with two number members.
RoundTripObjects ==
  Objects
    \cup {JvObject(<< <<k, JvString(s)>> >>) : k \in RoundTripStrings, s \in RoundTripStrings}
    \cup {JvObject(map_set(<< <<k1, JvNumber(1)>> >>, k2, JvNumber(2))) :
            k1 \in RoundTripStrings, k2 \in RoundTripStrings}

HeldValue(v) ==
  [op |-> "value", v |-> v, text |-> <<>>, parsed |-> NullPtr, err_set |-> FALSE,
   again |-> <<>>]

InitRoundTrip ==
  /\ ast_ = NullAst
  /\ program_ = NullProgram
  /\ registry_ = <<>>
  /\ initialized_ = FALSE
  /\ call \in {HeldValue(v) : v \in RoundTripObjects}
  /\ c_json_outputs = <<>>
  /\ c_json_out = <<>>
  /\ c_err = ""
  /\ x_prog = EmptyProgram
  /\ x_pc = 0
  /\ x_current = NullPtr
  /\ x_outputs = <<>>
  /\ x_status = "none"
  /\ x_last = NoInstruction

\* text = v->to_string()
ValueToString ==
  /\ call.op = "value"
  /\ call' = [call EXCEPT !.op = "to_string", !.text = to_string(call.v)]
  /\ UNCHANGED <<ast_, program_, registry_, initialized_, c_json_outputs, c_json_out,
                 c_err, execVars>>

\* parsed = JvValue::from_string(text, err)
ValueFromString ==
  /\ call.op = "to_string"
  /\ \E r \in {from_string(call.text)} :
        /\ call' = [call EXCEPT !.op = "from_string", !.parsed = r.v, !.err_set = r.err_set]
        /\ c_err' = IF r.err_set THEN r.err ELSE c_err
  /\ UNCHANGED <<ast_, program_, registry_, initialized_, c_json_outputs, c_json_out,
                 execVars>>

\* again = parsed->to_string()
ParsedToString ==
  /\ call.op = "from_string"
  /\ call' = [call EXCEPT !.op = "to_string_again", !.again = to_string(call.parsed)]
  /\ UNCHANGED <<ast_, program_, registry_, initialized_, c_json_outputs, c_json_out,
                 c_err, execVars>>

NextRoundTrip == ValueToString \/ ValueFromString \/ ParsedToString

SpecRoundTrip == InitRoundTrip /\ [][NextRoundTrip]_vars

-----------------------------------------------------------------------------
(* Lexer (SpecLexer): Lexer lexer(input); lexer.tokenize(), one pass of the
   do-while loop per step.  call holds the input, the lexer's position, the
   tokens pushed so far and whether the loop has ended. *)

\* The length bound of the lexed texts.
LexLen == 3

\* A digit, a letter, the exponent letter, punctuation with and without a
\* token of its own, the quote, the backslash, the comment sign, white space,
\* and the character '\0'.
LexChars == {"1", "a", "e", ".", "-", "=", "@", "\"", "\\", "#", " ", "\n", NUL}

LexTexts == SeqsUpTo(LexChars, LexLen)

Lexing(input) ==
  [op |-> "tokenize", input |-> input, ls |-> [pos |-> 0, line |-> 1, column |-> 1],
   tokens |-> <<>>, done |-> FALSE]

InitLexer ==
  /\ ast_ = NullAst
  /\ program_ = NullProgram
  /\ registry_ = <<>>
  /\ initialized_ = FALSE
  /\ call \in {Lexing(input) : input \in LexTexts}
  /\ c_json_outputs = <<>>
  /\ c_json_out = <<>>
  /\ c_err = ""
  /\ x_prog = EmptyProgram
  /\ x_pc = 0
  /\ x_current = NullPtr
  /\ x_outputs = <<>>
  /\ x_status = "none"
  /\ x_last = NoInstruction

\* tok = next_token(); tokens.push_back(tok); and the test of the loop
LexNextToken ==
  /\ ~call.done
  /\ \E r \in {next_token(call.input, call.ls)} :
        call' = [call EXCEPT !.ls = r.ls,
                             !.tokens = Append(@, r.tok),
                             !.done = ~(r.tok.type # "EOF_TOKEN" /\ r.tok.type # "ERROR")]
  /\ UNCHANGED <<ast_, program_, registry_, initialized_, c_json_outputs, c_json_out,
                 c_err, execVars>>

NextLexer == LexNextToken

SpecLexer == InitLexer /\ [][NextLexer]_vars

-----------------------------------------------------------------------------
(* Validation (SpecValidate): a caller builds a Program by hand, with operands
   inside and outside the pools, and calls validate on it.  x_prog is the
   Program, x_status "built", then "valid" or "invalid". *)

\* One string and one number.
ValidatePool == [strings |-> <<T_length>>, numbers |-> <<1>>]

\* The operands: none (-1), the only pool entry (0), one past the end (1).
ValidateOperands == {-1, 0, 1}

ValidateInstructions ==
  {Instruction("LOAD_IDENTITY", -1, -1)}
    \cup {Instruction(op, a, -1) :
            op \in {"GET_FIELD", "GET_INDEX_STR", "GET_INDEX_NUM", "ADD_CONST", "BUILTIN_CALL"},
            a \in ValidateOperands}

ValidatePrograms ==
  {[code |-> c, pool |-> ValidatePool] : c \in SeqsUpTo(ValidateInstructions, MaxCode)}

InitValidate ==
  /\ ast_ = NullAst
  /\ program_ = NullProgram
  /\ registry_ = <<>>
  /\ initialized_ = FALSE
  /\ call = NoCall
  /\ c_json_outputs = <<>>
  /\ c_json_out = <<>>
  /\ c_err = ""
  /\ x_prog \in ValidatePrograms
  /\ x_current = NullPtr
  /\ x_pc = 0
  /\ x_outputs = <<>>
  /\ x_status = "built"
  /\ x_last = NoInstruction

\* prog.validate(err)
ValidateProgram ==
  /\ x_status = "built"
  /\ \E v \in {validate(x_prog, c_err)} :
        /\ x_status' = (IF v.ok THEN "valid" ELSE "invalid")
        /\ c_err' = v.err
  /\ UNCHANGED <<ast_, program_, registry_, initialized_, call, c_json_outputs,
                 c_json_out, x_prog, x_pc, x_current, x_outputs, x_last>>

NextValidate == ValidateProgram

SpecValidate == InitValidate /\ [][NextValidate]_vars

-----------------------------------------------------------------------------
(* Two threads (SpecThreads): each thread makes one call of
   Builtins::call_builtin with a standard name, and these are the first
   accesses to the registry.  registry_ and initialized_ are the static members
   both threads use; nothing in jq_builtins.cpp locks them.  call.threads[t] is
   the position of thread t: pc is the statement it executes next, init the
   number of the init_builtins call it is in or will make next (call_builtin
   makes the first, get_builtin the second), k the standard builtin it
   registers next, fn the function its lookup gave. *)

Threads == {1, 2}

\* The value both threads pass as input.
ThreadInput == JvObject(<< <<T_key, JvNumber(1)>> >>)

Thread(name) ==
  [pc |-> "init_builtins", name |-> name, init |-> 1, k |-> 1, fn |-> "nullptr",
   ok |-> FALSE, err |-> ""]

InitThreads ==
  /\ ast_ = NullAst
  /\ program_ = NullProgram
  /\ registry_ = <<>>
  /\ initialized_ = FALSE
  /\ call \in {[op |-> "threads", threads |-> <<Thread(n1), Thread(n2)>>] :
                 n1 \in {StandardBuiltins[k][1] : k \in 1..Len(StandardBuiltins)},
                 n2 \in {StandardBuiltins[k][1] : k \in 1..Len(StandardBuiltins)}}
  /\ c_json_outputs = <<>>
  /\ c_json_out = <<>>
  /\ c_err = ""
  /\ x_prog = EmptyProgram
  /\ x_pc = 0
  /\ x_current = NullPtr
  /\ x_outputs = <<>>
  /\ x_status = "none"
  /\ x_last = NoInstruction

\* Where a thread is when its init_builtins call has returned: in get_builtin,
\* which calls init_builtins again, or at the find of get_builtin.
init_returned(th) ==
  IF th.init = 1 THEN [th EXCEPT !.pc = "init_builtins", !.init = 2]
  ELSE [th EXCEPT !.pc = "find"]

\* Another thread is between its writes of registry_: an access of the map by
\* this thread is not ordered with them (a data race).
Racing(t) == \E u \in Threads \ {t} : call.threads[u].pc = "register"

\* The process has ended in the data race.
Crashed == [t \in Threads |-> [call.threads[t] EXCEPT !.pc = "crashed"]]

\* if (initialized_) return;
ThreadInitCheck(t) ==
  /\ call.threads[t].pc = "init_builtins"
  /\ call' = [call EXCEPT !.threads[t] =
                IF initialized_ THEN init_returned(@) ELSE [@ EXCEPT !.pc = "set"]]
  /\ UNCHANGED <<ast_, program_, registry_, initialized_, c_json_outputs, c_json_out,
                 c_err, execVars>>

\* initialized_ = true;
ThreadSetInitialized(t) ==
  /\ call.threads[t].pc = "set"
  /\ initialized_' = TRUE
  /\ call' = [call EXCEPT !.threads[t] = [@ EXCEPT !.pc = "register", !.k = 1]]
  /\ UNCHANGED <<ast_, program_, registry_, c_json_outputs, c_json_out, c_err, execVars>>

\* register_builtin(name, fn), the next of the eight calls of init_builtins:
\* its own init_builtins call returns at once (initialized_ is true and never
\* reset), then registry_[name] = fn.
ThreadRegister(t) ==
  /\ call.threads[t].pc = "register"
  /\ \/ /\ registry_' = map_set(registry_, StandardBuiltins[call.threads[t].k][1],
                                StandardBuiltins[call.threads[t].k][2])
        /\ call' = [call EXCEPT !.threads[t] =
                      IF @.k = Len(StandardBuiltins) THEN init_returned(@)
                      ELSE [@ EXCEPT !.k = @ + 1]]
     \/ /\ Racing(t)
        /\ registry_' = registry_
        /\ call' = [call EXCEPT !.threads = Crashed]
  /\ UNCHANGED <<ast_, program_, initialized_, c_json_outputs, c_json_out, c_err,
                 execVars>>

\* auto it = registry_.find(name); return it->second or nullptr; and in
\* call_builtin: if (!fn) { err = "Unknown builtin: " + name; return false; }
ThreadFind(t) ==
  /\ call.threads[t].pc = "find"
  /\ \/ \E fn \in {IF map_has(registry_, call.threads[t].name)
                   THEN map_get(registry_, call.threads[t].name) ELSE "nullptr"} :
          call' = [call EXCEPT !.threads[t] =
                     IF fn = "nullptr"
                     THEN [@ EXCEPT !.pc = "done", !.ok = FALSE,
                                    !.err = "Unknown builtin: " \o Text2Str(call.threads[t].name)]
                     ELSE [@ EXCEPT !.pc = "apply", !.fn = fn]]
     \/ /\ Racing(t)
        /\ call' = [call EXCEPT !.threads = Crashed]
  /\ UNCHANGED <<ast_, program_, registry_, initialized_, c_json_outputs, c_json_out,
                 c_err, execVars>>

\* return fn(input, outputs, err);
ThreadApply(t) ==
  /\ call.threads[t].pc = "apply"
  /\ \E r \in apply_builtin(call.threads[t].fn, ThreadInput, <<>>, "") :
        call' = [call EXCEPT !.threads[t] =
                   [@ EXCEPT !.pc = "done", !.ok = r.ok, !.err = r.err]]
  /\ UNCHANGED <<ast_, program_, registry_, initialized_, c_json_outputs, c_json_out,
                 c_err, execVars>>

NextThreads ==
  \/ \E t \in Threads : ThreadInitCheck(t)
  \/ \E t \in Threads : ThreadSetInitialized(t)
  \/ \E t \in Threads : ThreadRegister(t)
  \/ \E t \in Threads : ThreadFind(t)
  \/ \E t \in Threads : ThreadApply(t)

SpecThreads == InitThreads /\ [][NextThreads]_vars

-----------------------------------------------------------------------------
(* Properties of the Engine calls (Spec). *)

\* The value the JSON input text of the current call stands for.
InputParse == from_string(call.json_in)
InputValue == InputParse.v
ValidInput == ~InputParse.err_set

\* Whether the filter of the current call compiles in a fresh Engine.
FilterCompiles ==
  Engine_compile([ast_ |-> NullAst, program_ |-> NullProgram], call.filter, "").ret

\* The JSON serializations of a sequence of values.
Serialized(vs) == [k \in 1..Len(vs) |-> to_string(vs[k])]

\* C1: for an array input with n elements run_streaming with the filter
\* values succeeds and emits exactly n outputs, output k being element k of
\* the array; for an object input it emits the object's values in ascending
\* key order.
C1_ValuesInOrder ==
  (call.op = "run_streaming" /\ call.filter = F_values /\ ValidInput) =>
     /\ is_array(InputValue) =>
          call.ret /\ c_json_outputs = Serialized(InputValue.a)
     /\ is_object(InputValue) =>
          call.ret /\ c_json_outputs = Serialized(map_values(InputValue.o))

\* C2: for any input value, executing the program compiled from the filter
\* empty succeeds and yields zero outputs.
C2_EmptyYieldsNothing ==
  (call.op = "run_streaming" /\ call.filter = F_empty /\ ValidInput) =>
     call.ret /\ call.executed /\ call.outputs = <<>> /\ c_json_outputs = <<>>

\* C3: when the DOM parser rejects the JSON input text, run_streaming and run
\* return false with the parser's error as the error message, and the filter
\* program is not executed on any value.
C3_RejectedInputFails ==
  (call.op \in {"run_streaming", "run"} /\ FilterCompiles /\ ~ValidInput) =>
     ~call.ret /\ c_err = InputParse.err /\ ~call.executed

\* What run_streaming can return for the filter and input of the current call:
\* its return value and, when that is true, its output list.
StreamingResults ==
  { [ret |-> r.ret, json_outputs |-> IF r.ret THEN r.json_outputs ELSE <<>>] :
      r \in Engine_run_streaming([ast_ |-> NullAst, program_ |-> NullProgram],
                                 [registry_ |-> registry_, initialized_ |-> initialized_],
                                 call.filter, call.json_in, <<>>, "") }

\* C7: for every filter and JSON input, run succeeds exactly when
\* run_streaming succeeds, and on success its result is the first element of
\* run_streaming's output list, or the text null when that list is empty.
C7_RunIsFirstOfStreaming ==
  call.op = "run" =>
     \E r \in StreamingResults :
        /\ call.ret = r.ret
        /\ call.ret => c_json_out = (IF r.json_outputs = <<>> THEN <<"n", "u", "l", "l">>
                                     ELSE r.json_outputs[1])
        /\ ~call.ret => c_json_out = EarlierOut

\* A run whose filter yields several different outputs has returned the first.
C7_Witness ==
  /\ call.op = "run"
  /\ call.ret
  /\ Len(call.streaming.json_outputs) >= 2
  /\ call.streaming.json_outputs[1] # call.streaming.json_outputs[Len(call.streaming.json_outputs)]
  /\ c_json_out = call.streaming.json_outputs[1]

\* Filters of the form .k with k an identifier.
IsFieldFilter(filter) ==
  \E toks \in {tokenize(filter)} :
     /\ Len(toks) = 3
     /\ toks[1].type = "DOT" /\ toks[2].type = "IDENTIFIER" /\ toks[3].type = "EOF_TOKEN"

\* C8: null-propagation: the program compiled from .k, executed on a value
\* that is not an object, succeeds with exactly one output equal to Null; the
\* program compiled from .[0], executed on a value that is not an array,
\* succeeds with exactly one output equal to Null.
C8_NullPropagation ==
  (call.op = "run_streaming" /\ ValidInput) =>
     /\ (IsFieldFilter(call.filter) /\ ~is_object(InputValue)) =>
           call.ret /\ call.executed /\ call.outputs = <<JvNull>>
                    /\ c_json_outputs = <<<<"n", "u", "l", "l">>>>
     /\ (call.filter = F_first /\ ~is_array(InputValue)) =>
           call.ret /\ call.executed /\ call.outputs = <<JvNull>>
                    /\ c_json_outputs = <<<<"n", "u", "l", "l">>>>

\* .a has been run on an array that is not empty.
C8_Witness ==
  /\ call.op = "run_streaming"
  /\ call.filter = F_a
  /\ ValidInput /\ is_array(InputValue) /\ InputValue.a # <<>>
  /\ call.ret
  /\ call.outputs = <<JvNull>>

\* Whether the token types from position k on are steps .ident and [num]
\* up to the end of the input.
RECURSIVE IsPathFrom(_, _)
IsPathFrom(toks, k) ==
  IF k > Len(toks) THEN FALSE
  ELSE IF toks[k].type = "EOF_TOKEN" THEN k = Len(toks)
  ELSE IF toks[k].type = "DOT"
       THEN k + 1 <= Len(toks) /\ toks[k + 1].type = "IDENTIFIER" /\ IsPathFrom(toks, k + 2)
  ELSE IF toks[k].type = "LBRACKET"
       THEN /\ k + 2 <= Len(toks)
            /\ toks[k + 1].type = "NUMBER" /\ toks[k + 2].type = "RBRACKET"
            /\ IsPathFrom(toks, k + 3)
  ELSE FALSE

\* Filters made of . followed by steps .ident and [num]; the first step may
\* share the leading dot (.a, .[0]).
IsPathFilter(filter) ==
  \E toks \in {tokenize(filter)} :
     /\ toks # <<>> /\ toks[1].type = "DOT"
     /\ \/ IsPathFrom(toks, 2)
        \/ Len(toks) >= 2 /\ toks[2].type = "IDENTIFIER" /\ IsPathFrom(toks, 3)

\* C9: totality: for any JSON input and any filter made of . followed by
\* steps .ident and [num], compilation and execution succeed (no error, no
\* failure return) and every output is a value, never an absent one.
C9_PathsAreTotal ==
  (call.op = "run_streaming" /\ ValidInput /\ IsPathFilter(call.filter)) =>
     /\ call.ret /\ call.executed /\ c_err = ""
     /\ \A k \in 1..Len(call.outputs) : call.outputs[k] # NullPtr
     /\ c_json_outputs = Serialized(call.outputs)

\* Whether the operand a of the instruction ins lies in the pool vector it
\* refers to.
OperandInPool(prog, ins) ==
  /\ ins.op \in {"GET_FIELD", "GET_INDEX_STR", "BUILTIN_CALL"} =>
        0 <= ins.a /\ ins.a < Len(prog.pool.strings)
  /\ ins.op \in {"GET_INDEX_NUM", "ADD_CONST"} =>
        0 <= ins.a /\ ins.a < Len(prog.pool.numbers)

\* C10: pool index validity: every Program for which Compiler::compile
\* returns true (the Engine keeps it in program_) passes validate, and every
\* pool-referencing instruction of it carries an operand a with
\* 0 <= a < size of the referenced pool vector.
C10_PoolIndexValidity ==
  program_ # NullProgram =>
     /\ validate(program_, "").ok
     /\ \A k \in 1..Len(program_.code) : OperandInPool(program_, program_.code[k])

\* A compiled program with two strings in its pool, one of them the name of
\* a builtin.
C10_Witness ==
  /\ call.op = "compile" /\ call.ret
  /\ program_ # NullProgram
  /\ Len(program_.pool.strings) = 2
  /\ \E k \in 1..Len(program_.code) :
        program_.code[k].op = "BUILTIN_CALL" /\ program_.code[k].a = 1

\* What a run of the filter and input of the current call gives in an Engine
\* that has run nothing before, with the registry as it is: the return value
\* and, on success, the output values and their serializations.
FreshRuns ==
  { [ret |-> r.ret, outputs |-> IF r.ret THEN r.outputs ELSE <<>>,
     json_outputs |-> IF r.ret THEN r.json_outputs ELSE <<>>] :
      r \in Engine_run_streaming([ast_ |-> NullAst, program_ |-> NullProgram],
                                 [registry_ |-> registry_, initialized_ |-> initialized_],
                                 call.filter, call.json_in, <<>>, "") }

\* C13: determinism: with the registry unchanged, every execution of a filter
\* on an input gives the one result (success or failure, and the same outputs
\* in the same order) that the first execution in a new Engine gives,
\* whatever the Engine ran before.
C13_Determinism ==
  /\ call.op = "run_streaming" =>
        FreshRuns = {[ret |-> call.ret,
                      outputs |-> IF call.ret THEN call.outputs ELSE <<>>,
                      json_outputs |-> IF call.ret THEN c_json_outputs ELSE <<>>]}
  /\ call.op = "run" =>
        FreshRuns = {[ret |-> call.ret,
                      outputs |-> IF call.ret THEN call.outputs ELSE <<>>,
                      json_outputs |-> IF call.ret THEN call.streaming.json_outputs ELSE <<>>]}

\* A filter with several outputs has been run by an Engine that ran a filter
\* with a builtin before.
C13_Witness ==
  /\ call.op = "run_streaming"
  /\ call.filter = F_iterate
  /\ call.ret
  /\ Len(c_json_outputs) >= 2
  /\ initialized_

\* Whether node is a literal of a number, resp. of a number or a string.
IsNumberLiteral(node) ==
  node # NullAst /\ node.type = "LITERAL" /\ node.literal # NullPtr /\ is_number(node.literal)
IsIndexLiteral(node) ==
  node # NullAst /\ node.type = "LITERAL" /\ node.literal # NullPtr
    /\ (is_number(node.literal) \/ is_string(node.literal))

\* The AST forms the compiler supports.
RECURSIVE Supported(_)
Supported(node) ==
  /\ node # NullAst
  /\ CASE node.type \in {"IDENTITY", "FIELD", "ITERATOR"} -> TRUE
       [] node.type = "INDEX" ->
            node.children # <<>> /\ IsIndexLiteral(node.children[1])
       [] node.type = "PIPE" ->
            Len(node.children) = 2 /\ \A k \in 1..2 : Supported(node.children[k])
       [] node.type = "BINARY_OP" ->
            /\ node.op = <<"+">> /\ Len(node.children) = 2
            /\ Supported(node.children[1]) /\ IsNumberLiteral(node.children[2])
       [] node.type = "FUNCTION_CALL" -> node.children = <<>>
       [] OTHER -> FALSE

\* C15: Compiler::compile returns true only for the supported forms
\* (Identity, Field, Index with a numeric or string literal child, Iterator,
\* Pipe, BinaryOp + with a numeric literal on the right, FunctionCall with no
\* arguments); for every other AST, in particular a FunctionCall with
\* arguments, it sets the error and returns false.
C15_OnlySupportedFormsCompile ==
  (call.op = "compile" /\ call.filter # <<>> /\ ast_ # NullAst) =>
     /\ call.ret => Supported(ast_)
     /\ ~Supported(ast_) => ~call.ret /\ c_err # ""

\* What Parser::parse makes of the filter of the current call.
FilterParse == parse(tokenize(call.filter))

\* C16: Parser::parse returns a non-null AST only when no parse error
\* occurred: a filter with a missing closing bracket, parenthesis, brace or
\* colon makes the parser set its error, parse returns null with a non-empty
\* error, and Engine::compile rejects the filter.
C16_ParseErrorGivesNull ==
  (call.op = "compile" /\ call.filter # <<>>) =>
     /\ FilterParse.node # NullAst => FilterParse.error_msg = ""
     /\ FilterParse.error_msg # "" => ~call.ret /\ c_err # ""

\* What compile makes of the filter of the current call in an Engine that has
\* compiled nothing before.
FreshCompile ==
  Engine_compile([ast_ |-> NullAst, program_ |-> NullProgram], call.filter, "")

\* The Programs a caller of Compiler::compile has at hand as target: a new
\* one and the one the Engine holds.
TargetPrograms == {EmptyProgram} \cup ({program_} \ {NullProgram})

\* C18: compile is idempotent and pure: whatever compile calls, successful or
\* failed, came before, compiling a filter gives the result, the message on
\* failure and on success the Program (instruction sequence and constant
\* pool) that it gives in a new Engine, and Compiler::compile gives the same
\* whatever the target Program held before, the Program of this filter or of
\* an earlier one included.
C18_CompileIsPure ==
  call.op = "compile" =>
     /\ call.ret = FreshCompile.ret
     /\ call.ret => program_ = FreshCompile.eng.program_
     /\ ~call.ret => c_err = FreshCompile.err
     /\ (call.filter # <<>> /\ FilterParse.node # NullAst) =>
           \A target \in TargetPrograms :
              Compiler_compile(FilterParse.node, target, "")
                = Compiler_compile(FilterParse.node, EmptyProgram, "")

\* A filter with two constants has been compiled and the Engine holds its
\* Program, the target of compiling it once more.
C18_Witness ==
  /\ call.op = "compile" /\ call.ret
  /\ call.filter = F_keys_pipe
  /\ program_ # NullProgram
  /\ Len(program_.code) >= 2
  /\ program_.pool.strings # <<>>

\* C17: whenever Engine::compile returns false, the Engine's stored AST and
\* Program are exactly what they were before the call.
C17_FailedCompileKeepsState ==
  [][ (call'.op = "compile" /\ ~call'.ret) => (ast_' = ast_ /\ program_' = program_) ]_vars

-----------------------------------------------------------------------------
(* Properties of the Executor (SpecExec). *)

\* The instruction the executor is at, and the outcomes of the builtin it names.
CurrentInstruction == x_prog.code[x_pc + 1]
BuiltinOutcomes ==
  call_builtin([registry_ |-> registry_, initialized_ |-> initialized_],
               x_prog.pool.strings[CurrentInstruction.a + 1], x_current, <<>>, c_err)

\* What an ITERATE appends to outputs for the current value cur.
Iterated(cur) ==
  IF cur # NullPtr /\ is_array(cur) THEN cur.a ELSE <<or_null(cur)>>

\* C4: ITERATE is terminal: with cur an array every element of cur is
\* appended to outputs in array order, with cur not an array cur is appended
\* exactly once, and execution returns success; after the ITERATE no further
\* instruction is executed and nothing more is appended to outputs.
C4_IterateIsTerminal ==
  [][ /\ (AtInstruction /\ Opcode = "ITERATE") =>
            /\ x_status' = "returned_true"
            /\ x_outputs' = x_outputs \o Iterated(x_current)
            /\ x_last' = CurrentInstruction
      /\ x_last.op = "ITERATE" =>
            /\ x_status = "returned_true"
            /\ x_outputs' = x_outputs /\ x_last' = x_last /\ x_pc' = x_pc
    ]_vars

\* An ITERATE with instructions after it has returned the elements of an array.
C4_Witness ==
  /\ x_last.op = "ITERATE"
  /\ x_status = "returned_true"
  /\ x_pc + 1 < Len(x_prog.code)
  /\ is_array(x_current)
  /\ Len(x_outputs) >= 2
  /\ x_outputs = x_current.a

\* C5: BUILTIN_CALL fan-out: when the called builtin succeeds with outputs
\* o1..ok, cur becomes o1 (Null when k = 0), o2..ok are appended to the
\* execution outputs in order, and execution goes on with the following
\* instruction on the new cur.
C5_BuiltinFanOut ==
  [][ (AtInstruction /\ Opcode = "BUILTIN_CALL" /\ \E r \in BuiltinOutcomes : r.ok) =>
         \E r \in BuiltinOutcomes :
            /\ r.ok
            /\ x_current' = (IF r.outputs = <<>> THEN JvNull ELSE r.outputs[1])
            /\ x_outputs' = x_outputs \o (IF r.outputs = <<>> THEN <<>> ELSE Tail(r.outputs))
            /\ x_pc' = x_pc + 1
            /\ x_status' = "running"
    ]_vars

\* A builtin with three outputs has been called and the instruction after it
\* has run on the first of them.
C5_Witness ==
  /\ Len(x_prog.code) = 2
  /\ x_prog.code[1] = Instruction("BUILTIN_CALL", 1, -1)
  /\ x_prog.code[2].op = "LENGTH"
  /\ x_pc = 2
  /\ x_status = "returned_true"
  /\ Len(x_outputs) = 3
  /\ x_outputs[3] = x_current

\* Whether the program holds an instruction with one of the opcodes ops.
HasOpcode(prog, ops) == \E k \in 1..Len(prog.code) : prog.code[k].op \in ops

\* C6: whenever execution reaches the end of the instruction vector without
\* an ITERATE and without a builtin failure, execute returns true and the last
\* element of outputs is the final value of cur (Null if cur is absent); a
\* program with no ITERATE and no BUILTIN_CALL yields exactly one output.
C6_FinalPush ==
  /\ (x_status = "returned_true" /\ x_last.op # "ITERATE") =>
        x_outputs # <<>> /\ x_outputs[Len(x_outputs)] = or_null(x_current)
  /\ (x_status \notin {"running", "none"} /\ ~HasOpcode(x_prog, {"ITERATE", "BUILTIN_CALL"})) =>
        x_status = "returned_true" /\ Len(x_outputs) = 1

-----------------------------------------------------------------------------
(* Properties of the builtin registry (SpecBuiltins). *)

\* The Builtins state.
Registry == [registry_ |-> registry_, initialized_ |-> initialized_]

\* The function call_builtin finds under name, "nullptr" when there is none.
Lookup(reg, name) == get_builtin(reg, name).fn

\* Whether the message msg holds the builtin name: the name alone, or between
\* the words the messages of call_builtin and of the builtins put around it.
MessageContains(msg, name) ==
  \E before \in {"", "Unknown builtin: "},
     after \in {"", ": null input", ": input must be object or array",
                ": input must be string or array", ": input must be array",
                ": input must be object"} :
     msg = before \o Text2Str(name) \o after

\* Whether the builtin called name is missing or returns false on input.
BuiltinFails(name, input) ==
  \E r \in call_builtin(Registry, name, input, <<>>, "") : ~r.ok

\* C11: if a BUILTIN_CALL names a builtin that is not registered, or the
\* builtin returns false, execute returns false at that instruction with a
\* non-empty error message that contains the builtin's name, no later
\* instruction is executed (nothing is pushed to the outputs), and
\* run_streaming delivers no outputs to the caller.
C11_BuiltinFailureIsReported ==
  (call.op = "run_streaming" /\ call.executed /\ BuiltinFails(call.name, call.input)) =>
     /\ ~call.ret
     /\ c_err # ""
     /\ MessageContains(c_err, call.name)
     /\ call.outputs = <<>>
     /\ c_json_outputs = EarlierOutputs

\* The Builtins state after the step.
RegistryAfter == [registry_ |-> registry_', initialized_ |-> initialized_']

\* C12: register_builtin adds or replaces: a registration makes call_builtin
\* find the registered function under exactly that name and changes what it
\* finds under no other name, also for a standard name and also as the very
\* first access to the registry; no lookup, call or run changes what is
\* found; and call_builtin(name) invokes the function found.
C12_RegisterAddsOrReplaces ==
  [][ /\ call'.op = "register_builtin" =>
            /\ Lookup(RegistryAfter, call'.name) = call'.fn
            /\ \A n \in BuiltinNames \ {call'.name} :
                  Lookup(RegistryAfter, n) = Lookup(Registry, n)
      /\ call'.op # "register_builtin" =>
            \A n \in BuiltinNames : Lookup(RegistryAfter, n) = Lookup(Registry, n)
      /\ call'.op = "get_builtin" => call'.fn = Lookup(Registry, call'.name)
      /\ call'.op = "has_builtin" => call'.ret = (Lookup(Registry, call'.name) # "nullptr")
      /\ call'.op = "call_builtin" =>
            IF Lookup(Registry, call'.name) = "nullptr" THEN ~call'.ret
            ELSE \E r \in apply_builtin(Lookup(Registry, call'.name), call'.input, <<>>, c_err) :
                    r.ok = call'.ret /\ r.outputs = call'.outputs
    ]_vars

\* The standard name keys has been called and the custom function registered
\* under it has answered.
C12_Witness ==
  /\ call.op = "call_builtin"
  /\ call.name = T_keys
  /\ Lookup(Registry, T_keys) = "custom_tag"
  /\ call.ret
  /\ call.outputs = <<JvString(<<"c", "u", "s", "t", "o", "m">>)>>

\* The results of the filter length run on the input of the current call, in
\* a new Engine.
LengthRuns ==
  Engine_run_streaming([ast_ |-> NullAst, program_ |-> NullProgram], Registry,
                       T_length, call.json_in, <<>>, "")

\* The keys of the object o as a set.
KeySet(o) == {o.o[k][1] : k \in 1..Len(o.o)}

\* C14: for any object o the filter keys run on o yields exactly one output,
\* the array of o's keys in ascending order with no key missing or
\* duplicated, and the number of its elements equals the single output of
\* the filter length run on o.
C14_KeysOfObject ==
  (/\ call.op = "run_streaming" /\ call.name = T_keys
   /\ Lookup(Registry, T_keys) = "keys_builtin"
   /\ call.input # NullPtr /\ is_object(call.input)) =>
     /\ call.ret
     /\ Len(call.outputs) = 1
     /\ is_array(call.outputs[1])
     /\ \A i \in 1..Len(call.outputs[1].a) : is_string(call.outputs[1].a[i])
     /\ \A i, j \in 1..Len(call.outputs[1].a) :
           i < j => StrLess(call.outputs[1].a[i].s, call.outputs[1].a[j].s)
     /\ {call.outputs[1].a[i].s : i \in 1..Len(call.outputs[1].a)} = KeySet(call.input)
     /\ \A r \in LengthRuns :
           r.ret /\ r.outputs = <<JvNumber(Len(call.outputs[1].a))>>

\* keys has been run on the text of an object whose keys are out of order and
\* one of them twice.
C14_Witness ==
  /\ call.op = "run_streaming" /\ call.name = T_keys
  /\ call.json_in = UnsortedObjectText
  /\ Lookup(Registry, T_keys) = "keys_builtin"
  /\ call.ret
  /\ c_json_outputs = << <<"[", "\"", "a", "\"", ",", "\"", "b", "\"", "]">> >>

-----------------------------------------------------------------------------
(* Properties of the serialization (SpecRoundTrip). *)

\* C19: sorted-keys round trip: for any JSON object value v, with keys and
\* string values over any characters, the quote, the backslash and LF
\* included, parsing to_string(v) again succeeds and
\* to_string(from_string(to_string(v))) equals to_string(v).
C19_SortedKeysRoundTrip ==
  /\ call.op \in {"from_string", "to_string_again"} => ~call.err_set
  /\ call.op = "to_string_again" => call.again = call.text

-----------------------------------------------------------------------------
(* Properties of sort (SpecBuiltins). *)

\* The order null < boolean < number < string < array < object, numbers by
\* value and strings byte-wise.
VariantRank(v) ==
  CASE v.t = "null" -> 0 [] v.t = "boolean" -> 1 [] v.t = "number" -> 2
    [] v.t = "string" -> 3 [] v.t = "array" -> 4 [] v.t = "object" -> 5
VariantLess(a, b) ==
  \/ VariantRank(a) < VariantRank(b)
  \/ a.t = "number" /\ b.t = "number" /\ a.n < b.n
  \/ a.t = "string" /\ b.t = "string" /\ StrLess(a.s, b.s)

NonDecreasing(a) == \A i, j \in 1..Len(a) : i < j => ~VariantLess(a[j], a[i])

\* Whether a and b hold the same elements the same number of times.
Occurrences(a, e) == Cardinality({k \in 1..Len(a) : a[k] = e})
IsPermutation(a, b) ==
  /\ Len(a) = Len(b)
  /\ \A k \in 1..Len(a) : Occurrences(a, a[k]) = Occurrences(b, a[k])

SortCalled ==
  /\ call.op \in {"call_builtin", "run_streaming"}
  /\ call.name = T_sort
  /\ call.executed
  /\ Lookup(Registry, T_sort) = "sort_builtin"

VariantEquivalent(a, b) == ~VariantLess(a, b) /\ ~VariantLess(b, a)

\* Whether out holds the elements of in with those that compare equal in the
\* order they have in in: p[k] is the place in in of the k-th element of out.
IsStablePermutation(out, in) ==
  /\ Len(out) = Len(in)
  /\ \E p \in Permutations(1..Len(in)) :
        /\ \A k \in 1..Len(in) : out[k] = in[p[k]]
        /\ \A i, j \in 1..Len(in) :
              (i < j /\ VariantEquivalent(in[p[i]], in[p[j]])) => p[i] < p[j]

\* C21: sort is stable: any two input elements that compare equal under the
\* sort order (two booleans, two nulls, two arrays, two objects, two equal
\* numbers or strings) appear in the output in the same relative order as in
\* the input.
C21_SortIsStable ==
  (SortCalled /\ call.ret /\ call.input # NullPtr /\ is_array(call.input)) =>
     /\ Len(call.outputs) = 1
     /\ is_array(call.outputs[1])
     /\ IsStablePermutation(call.outputs[1].a, call.input.a)

-----------------------------------------------------------------------------
(* Properties of single instructions (SpecExec). *)

\* C22: executing a NOP instruction leaves cur and outputs unchanged and
\* execution continues with the next instruction; a program containing NOP
\* never fails because of it.
C22_NopChangesNothing ==
  [][ (AtInstruction /\ Opcode = "NOP") =>
         /\ x_current' = x_current
         /\ x_outputs' = x_outputs
         /\ x_pc' = x_pc + 1
         /\ x_status' = "running"
         /\ c_err' = c_err
    ]_vars

\* The pooled index of the GET_INDEX_NUM the executor is at.
PooledIndex == x_prog.pool.numbers[CurrentInstruction.a + 1]

\* C23: GET_INDEX_NUM with pooled index i on an array of length n sets cur to
\* the element at position i when 0 <= i < n, and to Null for every
\* out-of-range index, every negative i and every i >= n included; it never
\* fails (and so never reads outside the array).
C23_IndexInRangeOrNull ==
  [][ (AtInstruction /\ Opcode = "GET_INDEX_NUM"
         /\ x_current # NullPtr /\ is_array(x_current)) =>
         /\ x_current' = (IF 0 <= PooledIndex /\ PooledIndex < Len(x_current.a)
                          THEN x_current.a[PooledIndex + 1] ELSE JvNull)
         /\ x_outputs' = x_outputs
         /\ x_pc' = x_pc + 1
         /\ x_status' = "running"
    ]_vars

-----------------------------------------------------------------------------
(* Properties of validate (SpecValidate). *)

\* The pool the executor reads with the operand of ins: strings for GET_FIELD,
\* GET_INDEX_STR and BUILTIN_CALL, numbers for GET_INDEX_NUM and ADD_CONST.
PoolRead(prog, ins) ==
  IF ins.op \in {"GET_FIELD", "GET_INDEX_STR", "BUILTIN_CALL"} THEN prog.pool.strings
  ELSE IF ins.op \in {"GET_INDEX_NUM", "ADD_CONST"} THEN prog.pool.numbers
  ELSE <<>>
ReadsPool(ins) ==
  ins.op \in {"GET_FIELD", "GET_INDEX_STR", "BUILTIN_CALL", "GET_INDEX_NUM", "ADD_CONST"}

\* C24: validate accepts a Program only if every instruction whose opcode
\* references the constant pool, BUILTIN_CALL included, carries an index in
\* range, so that no instruction of a Program that passed validate reads the
\* string or number pool out of range.
C24_ValidatedOperandsInRange ==
  x_status = "valid" =>
     \A k \in 1..Len(x_prog.code) :
        ReadsPool(x_prog.code[k]) =>
           /\ 0 <= x_prog.code[k].a
           /\ x_prog.code[k].a < Len(PoolRead(x_prog, x_prog.code[k]))

-----------------------------------------------------------------------------
(* Properties of the compiled code (Spec). *)

\* The instructions of prog with the constant each refers to in place of the
\* pool index.
Resolved(prog) ==
  [k \in 1..Len(prog.code) |->
     Bind(prog.code[k], LAMBDA ins :
       IF ins.op \in {"GET_FIELD", "GET_INDEX_STR", "BUILTIN_CALL"}
       THEN <<ins.op, prog.pool.strings[ins.a + 1]>>
       ELSE IF ins.op \in {"GET_INDEX_NUM", "ADD_CONST"}
       THEN <<ins.op, prog.pool.numbers[ins.a + 1]>>
       ELSE <<ins.op>>)]

\* The code of a supported AST, left to right: one instruction for a leaf with
\* the field name, index literal or builtin name of the node, the code of l
\* followed by the code of r for Pipe(l, r), the code of the left operand
\* followed by the addition of the addend for +.
RECURSIVE ExpectedCode(_)
ExpectedCode(node) ==
  CASE node.type = "IDENTITY" -> << <<"LOAD_IDENTITY">> >>
    [] node.type = "FIELD" -> << <<"GET_FIELD", node.name>> >>
    [] node.type = "INDEX" ->
         IF is_number(node.children[1].literal)
         THEN << <<"GET_INDEX_NUM", node.children[1].literal.n>> >>
         ELSE << <<"GET_INDEX_STR", node.children[1].literal.s>> >>
    [] node.type = "ITERATOR" -> << <<"ITERATE">> >>
    [] node.type = "PIPE" -> ExpectedCode(node.children[1]) \o ExpectedCode(node.children[2])
    [] node.type = "BINARY_OP" ->
         Append(ExpectedCode(node.children[1]), <<"ADD_CONST", node.children[2].literal.n>>)
    [] node.type = "FUNCTION_CALL" -> << <<"BUILTIN_CALL", node.name>> >>

\* C25: the compiler emits instructions in left-to-right order of the filter:
\* Pipe(l, r) emits all instructions of l followed by all instructions of r,
\* each supported leaf emits exactly one instruction, and the pool entry
\* referenced by each emitted instruction equals the field name, index
\* literal, addend or builtin name of the node it was emitted for.
C25_CodeFollowsFilter ==
  (call.op = "compile" /\ call.ret /\ Supported(ast_)) =>
     Resolved(program_) = ExpectedCode(ast_)

\* .a[0].b has been compiled to GET_FIELD a, GET_INDEX_NUM 0, GET_FIELD b.
C25_Witness ==
  /\ call.op = "compile" /\ call.ret
  /\ call.filter = F_path
  /\ Resolved(program_)
       = << <<"GET_FIELD", <<"a">> >>, <<"GET_INDEX_NUM", 0>>, <<"GET_FIELD", <<"b">> >> >>

-----------------------------------------------------------------------------
(* Properties of the lexer (SpecLexer). *)

IsLast(tok) == tok.type \in {"EOF_TOKEN", "ERROR"}

\* C26: for every input text, tokenize terminates without throwing (every
\* pass of its loop but the last moves the position forward, and the position
\* never passes the end of the text) and returns a non-empty token list whose
\* last token is EOF or ERROR and in which no earlier token is EOF or ERROR;
\* an ERROR token carries exactly the one offending character.
C26_TokenizeEndsTheList ==
  [][ /\ ~call'.done => call'.ls.pos > call.ls.pos
      /\ call'.ls.pos <= Len(call.input)
      /\ \A k \in 1..Len(call.tokens) : ~IsLast(call.tokens[k])
      /\ call'.done =>
            /\ call'.tokens # <<>>
            /\ IsLast(call'.tokens[Len(call'.tokens)])
      /\ \A k \in 1..Len(call'.tokens) :
            call'.tokens[k].type = "ERROR" =>
               /\ call'.ls.pos >= 1
               /\ call'.tokens[k].value = <<call.input[call'.ls.pos]>>
    ]_vars

\* A text has been lexed to a token followed by the ERROR token of the
\* character @.
C26_Witness ==
  /\ call.op = "tokenize" /\ call.done
  /\ Len(call.tokens) = 2
  /\ call.tokens[1].type = "IDENTIFIER"
  /\ call.tokens[2].type = "ERROR"
  /\ call.tokens[2].value = <<"@">>

-----------------------------------------------------------------------------
(* Properties of the registry's contents (SpecBuiltins). *)

StandardNames ==
  {T_keys, T_values, T_type, T_length, T_empty, T_reverse, T_sort, T_to_entries}

\* C27: the registry is append-only after initialization: after the first
\* registry access all eight standard names are registered in every state, no
\* operation removes a registered name, and the standard set is populated
\* exactly once: once initialized, nothing but the entry a register_builtin
\* call names changes, so that no later access puts a standard function back.
C27_RegistryIsAppendOnly ==
  [][ /\ initialized_ => initialized_'
      /\ call'.op \in {"register_builtin", "has_builtin", "get_builtin", "call_builtin"} =>
            initialized_'
      /\ initialized_' => \A n \in StandardNames : map_has(registry_', n)
      /\ \A k \in 1..Len(registry_) : map_has(registry_', registry_[k][1])
      /\ initialized_ =>
            registry_' = (IF call'.op = "register_builtin"
                          THEN map_set(registry_, call'.name, call'.fn)
                          ELSE registry_)
    ]_vars

\* A lookup of keys has found the custom function registered under it, in a
\* registry that holds the eight standard names and a ninth.
C27_Witness ==
  /\ call.op = "get_builtin"
  /\ call.name = T_keys
  /\ call.fn = "custom_fail"
  /\ initialized_
  /\ Len(registry_) = 9

-----------------------------------------------------------------------------
(* Properties of the Program a run executes (Spec). *)

\* What executing the Program compiled from the filter of the current call
\* gives on the input value of the call: the return value and the outputs.
OwnProgramResults ==
  { [ret |-> x.status # "returned_false", outputs |-> x.outputs] :
      x \in execute(FreshCompile.eng.program_, call.jv, "", Registry) }

\* C28: across any sequence of run, run_streaming and compile calls on one
\* Engine, the Program a run executes is the one compiled from the call's own
\* filter: the Engine holds it after the call and the outputs are those of
\* executing it; if the filter does not compile, nothing is executed, also
\* when the Engine still holds a Program from an earlier successful call.
C28_RunExecutesOwnProgram ==
  call.op \in {"run", "run_streaming"} =>
     /\ call.executed =>
           /\ FreshCompile.ret
           /\ program_ = FreshCompile.eng.program_
           /\ [ret |-> (IF call.op = "run" THEN call.streaming.ret ELSE call.ret),
               outputs |-> call.outputs] \in OwnProgramResults
     /\ ~FreshCompile.ret =>
           /\ ~call.executed
           /\ ~call.ret
           /\ call.outputs = <<>>

\* A filter that does not compile has been run by an Engine that holds the
\* Program of an earlier call, and nothing was executed.
C28_Witness ==
  /\ call.op = "run_streaming"
  /\ call.filter = F_huge_index
  /\ ~call.ret
  /\ ~call.executed
  /\ program_ # NullProgram
  /\ program_.code # <<>>

-----------------------------------------------------------------------------
(* C30 *)

\* C30: a run_streaming call that returns false leaves the caller's
\* json_outputs vector as it was before the call, and a run call that returns
\* false leaves the caller's json_out as it was; the outputs the executor had
\* collected before a builtin failed reach neither.
C30_FailedRunKeepsCallerOutputs ==
  [][ (call = NoCall /\ call'.op \in {"run", "run_streaming"} /\ ~call'.ret)
        => /\ c_json_outputs' = c_json_outputs
           /\ c_json_out' = c_json_out ]_vars

\* A run_streaming call has failed in a builtin after the executor had
\* collected an output, and the caller's vector holds its earlier contents.
C30_Witness ==
  /\ call.op = "run_streaming"
  /\ ~call.ret
  /\ call.executed
  /\ call.outputs # <<>>
  /\ c_json_outputs = EarlierOutputs
  /\ c_json_out = EarlierOut

-----------------------------------------------------------------------------
(* Properties of the two threads (SpecThreads). *)

\* C29: when two threads make the first accesses to the registry at the same
\* time, each with one call_builtin call of a standard name and no
\* register_builtin call of the user, neither call finds the registry
\* initialized without that name in it: no call returns false with the
\* message `Unknown builtin: <name>`.
C29_ConcurrentFirstLookupsFind ==
  \A t \in Threads :
     call.threads[t].pc = "done" =>
        /\ call.threads[t].fn # "nullptr"
        /\ call.threads[t].err # "Unknown builtin: " \o Text2Str(call.threads[t].name)

====
